---- MODULE Spec2Model ----
(***************************************************************************)
(* A model of the AyurAssist ablation evaluation engine: the tiered term   *)
(* matcher (ablation/evaluation/matching.py), the vocabulary lookup it     *)
(* uses (ablation/terminology_bridge.py), the text metrics                 *)
(* (ablation/evaluation/text_metrics.py) and the evaluation driver         *)
(* (ablation/run_ablation.py).                                             *)
(*                                                                         *)
(* Strings are sequences of one-character strings.  Ratios that the code   *)
(* computes in floating point are kept as exact fractions <<num, den>>;    *)
(* the comparisons the model makes on them (>= 0.80, >= 0.75, equality of  *)
(* two quotients of small integers) give the same answer in IEEE doubles.  *)
(***************************************************************************)
EXTENDS Integers, Sequences, FiniteSets, TLC

(***************************************************************************)
(* Characters and basic string operations (Python str methods).            *)
(***************************************************************************)
UpperChars == <<"A","B","C","D","E","F","G","H","I","J","K","L","M",
                "N","O","P","Q","R","S","T","U","V","W","X","Y","Z">>
LowerChars == <<"a","b","c","d","e","f","g","h","i","j","k","l","m",
                "n","o","p","q","r","s","t","u","v","w","x","y","z">>
DigitChars == {"0","1","2","3","4","5","6","7","8","9"}
SpaceChars == {" "}

IsUpper(c) == \E i \in 1..26 : UpperChars[i] = c
IsLowerAZ(c) == \E i \in 1..26 : LowerChars[i] = c
IsDigit(c) == c \in DigitChars
IsSpace(c) == c \in SpaceChars
\* \w of the re module on the characters of the model: letters, digits, "_"
IsWordChar(c) == IsUpper(c) \/ IsLowerAZ(c) \/ IsDigit(c) \/ c = "_"

LowerChar(c) == IF IsUpper(c)
                THEN LowerChars[CHOOSE i \in 1..26 : UpperChars[i] = c]
                ELSE c

\* str.lower()
Lower(s) == [i \in 1..Len(s) |-> LowerChar(s[i])]

UpperSet == {UpperChars[i] : i \in 1..26}
LowerSet == {LowerChars[i] : i \in 1..26}

\* the characters of s that belong to keep, in order (re.sub of the
\* complement class by "")
RECURSIVE KeepOnly(_, _)
KeepOnly(s, keep) ==
    IF s = <<>> THEN <<>>
    ELSE IF Head(s) \in keep THEN <<Head(s)>> \o KeepOnly(Tail(s), keep)
         ELSE KeepOnly(Tail(s), keep)

\* str.replace(c, "") for each character c of drop
RECURSIVE DropChars(_, _)
DropChars(s, drop) ==
    IF s = <<>> THEN <<>>
    ELSE IF Head(s) \in drop THEN DropChars(Tail(s), drop)
         ELSE <<Head(s)>> \o DropChars(Tail(s), drop)

RECURSIVE LStrip(_)
LStrip(s) == IF s # <<>> /\ IsSpace(Head(s)) THEN LStrip(Tail(s)) ELSE s

RECURSIVE RStrip(_)
RStrip(s) == IF s # <<>> /\ IsSpace(s[Len(s)])
             THEN RStrip(SubSeq(s, 1, Len(s) - 1)) ELSE s

\* str.strip()
Strip(s) == RStrip(LStrip(s))

\* re.split(r"[...]+", s) for the character class seps: the pieces between
\* maximal runs of separators, empty pieces at the ends included
RECURSIVE SplitRuns(_, _, _, _)
SplitRuns(s, seps, cur, inSep) ==
    IF s = <<>> THEN <<cur>>
    ELSE IF Head(s) \in seps
         THEN IF inSep THEN SplitRuns(Tail(s), seps, cur, TRUE)
              ELSE <<cur>> \o SplitRuns(Tail(s), seps, <<>>, TRUE)
         ELSE SplitRuns(Tail(s), seps, Append(cur, Head(s)), FALSE)

ReSplitRuns(s, seps) == SplitRuns(s, seps, <<>>, FALSE)

Min2(a, b) == IF a < b THEN a ELSE b
Max2(a, b) == IF a > b THEN a ELSE b
Abs(a) == IF a < 0 THEN -a ELSE a

(***************************************************************************)
(* Levenshtein distance and normalized similarity (matching.py 28-48).     *)
(***************************************************************************)
\* the inner loop of levenshtein: curr grows by one cell per character of s2
\* (the test on Len(nxt) only makes the evaluation of the row eager)
RECURSIVE LevRow(_, _, _, _, _)
LevRow(c1, s2, prev, curr, j) ==
    IF j > Len(s2) THEN curr
    ELSE LET nxt == Append(curr, Min2(Min2(prev[j + 1] + 1, curr[j] + 1),
                                      prev[j] + (IF c1 # s2[j] THEN 1 ELSE 0)))
         IN  IF Len(nxt) = j + 1 THEN LevRow(c1, s2, prev, nxt, j + 1) ELSE <<>>

\* the outer loop: one row per character of s1 (i is the 1-based position)
RECURSIVE LevRows(_, _, _, _)
LevRows(s1, s2, prev, i) ==
    IF i > Len(s1) THEN prev
    ELSE LET curr == LevRow(s1[i], s2, prev, <<i>>, 1)
         IN  IF Len(curr) = Len(s2) + 1 THEN LevRows(s1, s2, curr, i + 1) ELSE <<>>

levenshtein(s1, s2) ==
    LET a == IF Len(s1) < Len(s2) THEN s2 ELSE s1
        b == IF Len(s1) < Len(s2) THEN s1 ELSE s2
    IN  IF Len(b) = 0 THEN Len(a)
        ELSE LET last == LevRows(a, b, [k \in 1..(Len(b) + 1) |-> k - 1], 1)
             IN  last[Len(last)]

\* normalized_similarity as the exact fraction <<num, den>>
normalized_similarity(s1, s2) ==
    IF s1 = <<>> /\ s2 = <<>> THEN <<1, 1>>
    ELSE IF s1 = <<>> \/ s2 = <<>> THEN <<0, 1>>
    ELSE LET max_len == Max2(Len(s1), Len(s2))
         IN  <<max_len - levenshtein(s1, s2), max_len>>

\* fractions with positive denominators
FracGE(a, b) == a[1] * b[2] >= b[1] * a[2]
FracGT(a, b) == a[1] * b[2] > b[1] * a[2]
FracEQ(a, b) == a[1] * b[2] = b[1] * a[2]

(***************************************************************************)
(* The WHO-ITA vocabulary (terminology_bridge.py 52-158).  A dict is an    *)
(* insertion-ordered sequence of <<key, value>> pairs with distinct keys.  *)
(***************************************************************************)
DictHas(d, k) == \E i \in 1..Len(d) : d[i][1] = k
DictGet(d, k) == d[CHOOSE i \in 1..Len(d) : d[i][1] = k][2]
\* d[k] = v: an existing key keeps its position
DictSet(d, k, v) ==
    IF DictHas(d, k)
    THEN [i \in 1..Len(d) |-> IF d[i][1] = k THEN <<k, v>> ELSE d[i]]
    ELSE Append(d, <<k, v>>)

\* re.split(r"[;,]", s): one split per separator character
RECURSIVE SplitEach(_, _, _)
SplitEach(s, seps, cur) ==
    IF s = <<>> THEN <<cur>>
    ELSE IF Head(s) \in seps THEN <<cur>> \o SplitEach(Tail(s), seps, <<>>)
         ELSE SplitEach(Tail(s), seps, Append(cur, Head(s)))

RECURSIVE DropDigits(_)
DropDigits(s) == IF s # <<>> /\ IsDigit(Head(s)) THEN DropDigits(Tail(s)) ELSE s

\* re.sub(r"^\d+\.\s*", "", part)
StripNumbering(part) ==
    LET rest == DropDigits(part)
    IN  IF part # <<>> /\ IsDigit(Head(part)) /\ rest # <<>> /\ Head(rest) = "."
        THEN LStrip(Tail(rest))
        ELSE part

RECURSIVE RStripSlash(_)
RStripSlash(s) == IF s # <<>> /\ s[Len(s)] = "/"
                  THEN RStripSlash(SubSeq(s, 1, Len(s) - 1)) ELSE s

\* lines 73-78: the Sanskrit aliases of one row
RECURSIVE CleanParts(_)
CleanParts(parts) ==
    IF parts = <<>> THEN <<>>
    ELSE LET term == Strip(RStripSlash(Strip(StripNumbering(Head(parts)))))
         IN  IF term # <<>> THEN <<term>> \o CleanParts(Tail(parts))
             ELSE CleanParts(Tail(parts))

SanskritTerms(sanskrit_raw) == CleanParts(SplitEach(sanskrit_raw, {";", ","}, <<>>))

\* line 83 and line 126: lower(), "-" and " " removed
CollapsedKey(st) == DropChars(Lower(st), {"-", " "})

RECURSIVE IndexSanskrit(_, _, _)
IndexSanskrit(index, sts, ita_id) ==
    IF sts = <<>> THEN index
    ELSE IndexSanskrit(DictSet(index, CollapsedKey(Head(sts)), ita_id),
                       Tail(sts), ita_id)

EmptyVocab == [terms |-> <<>>, sanskrit_index |-> <<>>, english_index |-> <<>>]

\* LoadRow that stores the entry of a row only when the row has a
\* Sanskrit alias
LoadRow_EntryNeedsAlias(v, row) ==
    IF Len(row) < 3 THEN v
    ELSE LET ita_id == Strip(row[1])
             english == Strip(row[2])
             sanskrit_terms == SanskritTerms(Strip(row[3]))
         IN  [terms |-> IF sanskrit_terms = <<>> THEN v.terms
                        ELSE DictSet(v.terms, ita_id, <<english, sanskrit_terms>>),
              sanskrit_index |-> IndexSanskrit(v.sanskrit_index, sanskrit_terms, ita_id),
              english_index |-> DictSet(v.english_index, Strip(Lower(english)), ita_id)]

\* lines 66-86: one row of the CSV
LoadRow(v, row) ==
    IF Len(row) < 3 THEN v
    ELSE LET ita_id == Strip(row[1])
             english == Strip(row[2])
             sanskrit_terms == SanskritTerms(Strip(row[3]))
         IN  [terms |-> DictSet(v.terms, ita_id, <<english, sanskrit_terms>>),
              sanskrit_index |-> IndexSanskrit(v.sanskrit_index, sanskrit_terms, ita_id),
              english_index |-> DictSet(v.english_index, Strip(Lower(english)), ita_id)]

RECURSIVE LoadRows(_, _)
LoadRows(v, rows) ==
    IF rows = <<>> THEN v ELSE LoadRows(LoadRow(v, Head(rows)), Tail(rows))

\* ITAVocabulary._load: rows[1:] skips the header
Load(rows) == LoadRows(EmptyVocab, IF rows = <<>> THEN <<>> ELSE Tail(rows))

\* the sign of the rounding error of the double product
\* (1.0 - threshold) * max_len against the exact product, for the
\* thresholds 0.60, 0.75, 0.80, 0.85 and max_len up to 15: 1.0 - 0.75 is
\* exact, 1.0 - 0.8 is the double below 0.2, 1.0 - 0.6 and 1.0 - 0.85 are
\* the doubles above 0.4 and 0.15, and 0.4 * max_len rounds to the exact
\* integer for the multiples of 5
ProductError(thr, max_len) ==
    IF max_len = 0 THEN 0
    ELSE CASE thr = <<75, 100>> -> 0
           [] thr = <<80, 100>> -> -1
           [] thr = <<60, 100>> -> IF max_len % 5 = 0 THEN 0 ELSE 1
           [] thr = <<85, 100>> -> 1

\* the length test of lines 106-110 and 137-142:
\* max_len > 0 and abs(len_a - len_b) > (1.0 - threshold) * max_len
LengthPruned(len_a, len_b, thr) ==
    LET max_len == Max2(len_a, len_b)
        diff == Abs(len_a - len_b) * thr[2]
        bound == (thr[2] - thr[1]) * max_len
    IN  max_len > 0 /\ (diff > bound \/ (diff = bound /\ ProductError(thr, max_len) < 0))

\* the fuzzy Sanskrit scan of find_best_match (lines 134-147): best is
\* <<ita_id, key, sim>> or None, keys visited in insertion order
None == <<"None">>

RECURSIVE FuzzySanskrit(_, _, _, _, _)
FuzzySanskrit(index, term_clean, thr, best, best_sim) ==
    IF index = <<>> THEN <<best, best_sim>>
    ELSE LET key == Head(index)[1]
             ita_id == Head(index)[2]
             pruned == LengthPruned(Len(term_clean), Len(key), thr)
             sim == normalized_similarity(term_clean, key)
         IN  IF ~pruned /\ FracGT(sim, best_sim)
             THEN FuzzySanskrit(Tail(index), term_clean, thr, <<ita_id, key, sim>>, sim)
             ELSE FuzzySanskrit(Tail(index), term_clean, thr, best, best_sim)

\* ITAVocabulary.find_best_match(term, threshold): <<ita_id, matched, sim>> or None
find_best_match(v, term, thr) ==
    LET term_clean == CollapsedKey(term)
        scan == FuzzySanskrit(v.sanskrit_index, term_clean, thr, None, <<0, 1>>)
        term_lower == Strip(Lower(term))
    IN  IF DictHas(v.sanskrit_index, term_clean)
        THEN <<DictGet(v.sanskrit_index, term_clean), term, <<1, 1>>>>
        ELSE IF scan[1] # None /\ FracGE(scan[2], thr) THEN scan[1]
        ELSE IF DictHas(v.english_index, term_lower)
        THEN <<DictGet(v.english_index, term_lower), term, <<1, 1>>>>
        ELSE None

\* the scan of irr_ayurveda.find_best_match (irr_ayurveda.py 124-130):
\* every key is compared
RECURSIVE IrrFuzzySanskrit(_, _, _, _)
IrrFuzzySanskrit(index, term_clean, best, best_sim) ==
    IF index = <<>> THEN <<best, best_sim>>
    ELSE LET key == Head(index)[1]
             ita_id == Head(index)[2]
             sim == normalized_similarity(term_clean, key)
         IN  IF FracGT(sim, best_sim)
             THEN IrrFuzzySanskrit(Tail(index), term_clean, <<ita_id, key, sim>>, sim)
             ELSE IrrFuzzySanskrit(Tail(index), term_clean, best, best_sim)

\* irr_ayurveda.ITAVocabulary.find_best_match(term, threshold)
irr_find_best_match(v, term, thr) ==
    LET term_clean == CollapsedKey(term)
        scan == IrrFuzzySanskrit(v.sanskrit_index, term_clean, None, <<0, 1>>)
        term_lower == Strip(Lower(term))
    IN  IF DictHas(v.sanskrit_index, term_clean)
        THEN <<DictGet(v.sanskrit_index, term_clean), term, <<1, 1>>>>
        ELSE IF scan[1] # None /\ FracGE(scan[2], thr) THEN scan[1]
        ELSE IF DictHas(v.english_index, term_lower)
        THEN <<DictGet(v.english_index, term_lower), term, <<1, 1>>>>
        ELSE None

\* the length of the common run of a from i and b from j (0-based), inside
\* a[:ahi] and b[:bhi]
RECURSIVE RunLen(_, _, _, _, _, _)
RunLen(a, b, i, j, ahi, bhi) ==
    IF i < ahi /\ j < bhi /\ a[i + 1] = b[j + 1]
    THEN 1 + RunLen(a, b, i + 1, j + 1, ahi, bhi)
    ELSE 0

\* SequenceMatcher.find_longest_match without junk: <<i, j, k>>, the longest
\* block, of those the one starting earliest in a, of those the one
\* starting earliest in b; <<alo, blo, 0>> when nothing matches
find_longest_match(a, b, alo, ahi, blo, bhi) ==
    LET starts == (alo..(ahi - 1)) \X (blo..(bhi - 1))
        size == [p \in starts |-> RunLen(a, b, p[1], p[2], ahi, bhi)]
        blocks == {p \in starts : size[p] > 0}
        first == CHOOSE p \in blocks : \A q \in blocks :
                     \/ size[p] > size[q]
                     \/ size[p] = size[q] /\ p[1] < q[1]
                     \/ size[p] = size[q] /\ p[1] = q[1] /\ p[2] <= q[2]
    IN  IF blocks = {} THEN <<alo, blo, 0>> ELSE <<first[1], first[2], size[first]>>

\* the sum of the sizes of get_matching_blocks: the longest block, then
\* the blocks to its left and to its right
RECURSIVE MatchingSize(_, _, _, _, _, _)
MatchingSize(a, b, alo, ahi, blo, bhi) ==
    LET m == find_longest_match(a, b, alo, ahi, blo, bhi)
        i == m[1]
        j == m[2]
        k == m[3]
    IN  IF k = 0 THEN 0
        ELSE k + (IF alo < i /\ blo < j THEN MatchingSize(a, b, alo, i, blo, j) ELSE 0)
               + (IF i + k < ahi /\ j + k < bhi
                  THEN MatchingSize(a, b, i + k, ahi, j + k, bhi) ELSE 0)

\* SequenceMatcher(None, a, b).ratio(): 2.0 * matches / (len(a) + len(b)),
\* 1.0 for two empty strings
SequenceRatio(a, b) ==
    IF Len(a) + Len(b) = 0 THEN <<1, 1>>
    ELSE <<2 * MatchingSize(a, b, 0, Len(a), 0, Len(b)), Len(a) + Len(b)>>

\* lines 102-115: the fuzzy scan of english_index: <<best_id, best_sim>>
RECURSIVE EnglishScan(_, _, _, _, _)
EnglishScan(index, term_lower, thr, best_id, best_sim) ==
    IF index = <<>> THEN <<best_id, best_sim>>
    ELSE LET eng_key == Head(index)[1]
             ita_id == Head(index)[2]
             pruned == LengthPruned(Len(term_lower), Len(eng_key), thr)
             sim == SequenceRatio(term_lower, eng_key)
         IN  IF ~pruned /\ FracGT(sim, best_sim)
             THEN EnglishScan(Tail(index), term_lower, thr, ita_id, sim)
             ELSE EnglishScan(Tail(index), term_lower, thr, best_id, best_sim)

\* "; ".join(sanskrit_list)
RECURSIVE JoinSanskrit(_)
JoinSanskrit(sanskrit_list) ==
    IF sanskrit_list = <<>> THEN <<>>
    ELSE IF Len(sanskrit_list) = 1 THEN sanskrit_list[1]
    ELSE sanskrit_list[1] \o <<";", " ">> \o JoinSanskrit(Tail(sanskrit_list))

\* lines 97-100 and 118-120: the tuple returned for an id
EnglishMatch(v, ita_id, sim) ==
    LET entry == DictGet(v.terms, ita_id)
    IN  <<ita_id, entry[1], JoinSanskrit(entry[2]), sim>>

\* ITAVocabulary.find_best_english_match(term, threshold):
\* <<ita_id, english, sanskrit, similarity>> or None
find_best_english_match(v, term, thr) ==
    LET term_lower == Strip(Lower(term))
        scan == EnglishScan(v.english_index, term_lower, thr, None, <<0, 1>>)
    IN  IF DictHas(v.english_index, term_lower)
        THEN EnglishMatch(v, DictGet(v.english_index, term_lower), <<1, 1>>)
        ELSE IF scan[1] # None /\ scan[1] # <<>> /\ FracGE(scan[2], thr)
        THEN EnglishMatch(v, scan[1], scan[2])
        ELSE None

\* default threshold of find_best_match, 0.75
MATCH_THRESHOLD == <<75, 100>>

(***************************************************************************)
(* Pairwise tier decision (matching.py 51-110).                            *)
(***************************************************************************)
AYUR_STOPWORDS ==
    { <<"v","a","t","a">>, <<"p","i","t","t","a">>, <<"k","a","p","h","a">>,
      <<"d","o","s","h","a">>, <<"d","u","s","h","t","i">>,
      <<"v","i","k","a","r","a">>, <<"r","o","g","a">>,
      <<"v","y","a","d","h","i">>, <<"s","a","m","a","n","a">>,
      <<"s","h","a","m","a","n","a">>, <<"h","a","r","a">>,
      <<"c","h","i","k","i","t","s","a">>, <<"t","h","e","r","a","p","y">>,
      <<"t","r","e","a","t","m","e","n","t">>,
      <<"t","h","e">>, <<"a">>, <<"a","n">>, <<"o","f">>, <<"i","n">>,
      <<"o","n">>, <<"f","o","r">>, <<"t","o">>, <<"i","s">>,
      <<"a","n","d">>, <<"o","r">>, <<"w","i","t","h">>, <<"d","u","e">>,
      <<"t","y","p","e">> }

\* the test of line 70 on the word w already reduced to a-z
IsSignificant(w) == w # <<>> /\ Len(w) > 2 /\ w \notin AYUR_STOPWORDS

get_significant_words(term) ==
    LET pieces == ReSplitRuns(Lower(term), {" ", "-", "/"})
        words == {KeepOnly(pieces[i], LowerSet) : i \in 1..Len(pieces)}
    IN  {w \in words : IsSignificant(w)}

\* FUZZY_THRESHOLD of configs.py, 0.80
FUZZY_THRESHOLD == <<80, 100>>

\* truthiness of an ITA id held in the cache: None and "" are false
Truthy(ita_id) == ita_id # None /\ ita_id # <<>>

\* match_term_to_term with the fuzzy tier tried before the word overlap
match_term_to_term_FuzzyFirst(pred_term, gold_term, pred_ita_id, gold_ita_id) ==
    LET pred_words == get_significant_words(pred_term)
        gold_words == get_significant_words(gold_term)
        pred_clean == Strip(Lower(pred_term))
        gold_clean == Strip(Lower(gold_term))
    IN  IF Truthy(pred_ita_id) /\ Truthy(gold_ita_id) /\ pred_ita_id = gold_ita_id
        THEN "ita_match"
        ELSE IF Len(pred_clean) >= 3 /\ Len(gold_clean) >= 3
                /\ FracGE(normalized_similarity(pred_clean, gold_clean), FUZZY_THRESHOLD)
        THEN "fuzzy_match"
        ELSE IF pred_words # {} /\ gold_words # {} /\ (pred_words \cap gold_words) # {}
        THEN "word_overlap"
        ELSE "no_match"

\* match_term_to_term without the ITA tier
match_term_to_term_NoIta(pred_term, gold_term, pred_ita_id, gold_ita_id) ==
    LET pred_words == get_significant_words(pred_term)
        gold_words == get_significant_words(gold_term)
        pred_clean == Strip(Lower(pred_term))
        gold_clean == Strip(Lower(gold_term))
    IN  IF pred_words # {} /\ gold_words # {} /\ (pred_words \cap gold_words) # {}
        THEN "word_overlap"
        ELSE IF Len(pred_clean) >= 3 /\ Len(gold_clean) >= 3
                /\ FracGE(normalized_similarity(pred_clean, gold_clean), FUZZY_THRESHOLD)
        THEN "fuzzy_match"
        ELSE "no_match"

\* match_term_to_term: the level of the first tier that accepts the pair;
\* "no_match" stands for (False, "no_match")
match_term_to_term(pred_term, gold_term, pred_ita_id, gold_ita_id) ==
    LET pred_words == get_significant_words(pred_term)
        gold_words == get_significant_words(gold_term)
        pred_clean == Strip(Lower(pred_term))
        gold_clean == Strip(Lower(gold_term))
    IN  IF Truthy(pred_ita_id) /\ Truthy(gold_ita_id) /\ pred_ita_id = gold_ita_id
        THEN "ita_match"
        ELSE IF pred_words # {} /\ gold_words # {} /\ (pred_words \cap gold_words) # {}
        THEN "word_overlap"
        ELSE IF Len(pred_clean) >= 3 /\ Len(gold_clean) >= 3
                /\ FracGE(normalized_similarity(pred_clean, gold_clean), FUZZY_THRESHOLD)
        THEN "fuzzy_match"
        ELSE "no_match"

(***************************************************************************)
(* The term splitter (gold_standard.py 18-60).                             *)
(***************************************************************************)
WordSet == UpperSet \cup LowerSet \cup DigitChars \cup {"_"}

\* s[i..] starts with the literal lit
StartsAt(s, i, lit) ==
    /\ i + Len(lit) - 1 <= Len(s)
    /\ \A k \in 1..Len(lit) : s[i + k - 1] = lit[k]

StartsAtNoCase(s, i, lit) ==
    /\ i + Len(lit) - 1 <= Len(s)
    /\ \A k \in 1..Len(lit) : LowerChar(s[i + k - 1]) = lit[k]

\* \b at the gap before position i
WordBoundary(s, i) ==
    LET before == i > 1 /\ s[i - 1] \in WordSet
        after == i <= Len(s) /\ s[i] \in WordSet
    IN  before # after

\* the number of whitespace characters of s from position i on
RECURSIVE SpacesFrom(_, _)
SpacesFrom(s, i) ==
    IF i <= Len(s) /\ IsSpace(s[i]) THEN 1 + SpacesFrom(s, i + 1) ELSE 0

\* re.sub(r"\s+", " ", text): every run of whitespace becomes one space
RECURSIVE CollapseSpaces(_, _)
CollapseSpaces(s, inSpace) ==
    IF s = <<>> THEN <<>>
    ELSE IF IsSpace(Head(s))
         THEN IF inSpace THEN CollapseSpaces(Tail(s), TRUE)
              ELSE <<" ">> \o CollapseSpaces(Tail(s), TRUE)
         ELSE <<Head(s)>> \o CollapseSpaces(Tail(s), FALSE)

\* normalize_text on the characters of the model (no newline, no Unicode
\* dash): whitespace runs collapsed, then strip()
normalize_text(text) == Strip(CollapseSpaces(text, FALSE))

\* re.sub(r"\([^)]{n,}\)", "", s): every "(" followed by at least n
\* characters other than ")" and then ")" is removed with its content
RECURSIVE CloseParen(_, _)
CloseParen(s, i) ==
    IF i > Len(s) THEN 0 ELSE IF s[i] = ")" THEN i ELSE CloseParen(s, i + 1)

RECURSIVE DropParens(_, _, _)
DropParens(s, i, n) ==
    IF i > Len(s) THEN <<>>
    ELSE LET close == CloseParen(s, i + 1)
         IN  IF s[i] = "(" /\ close # 0 /\ close - i - 1 >= n
             THEN DropParens(s, close + 1, n)
             ELSE <<s[i]>> \o DropParens(s, i + 1, n)

\* the long parenthetical asides removed by line 51
LONG_PAREN == 30

AND_OR == <<"a","n","d","/","o","r">>
OR_WORD == <<"o","r">>

\* re.split(r"[;,/]|\band/or\b|\bor\b(?!\w)", text), alternatives in order
RECURSIVE SplitSeparators(_, _, _)
SplitSeparators(s, i, cur) ==
    IF i > Len(s) THEN <<cur>>
    ELSE IF s[i] \in {";", ",", "/"}
         THEN <<cur>> \o SplitSeparators(s, i + 1, <<>>)
    ELSE IF StartsAt(s, i, AND_OR) /\ WordBoundary(s, i) /\ WordBoundary(s, i + 6)
         THEN <<cur>> \o SplitSeparators(s, i + 6, <<>>)
    ELSE IF StartsAt(s, i, OR_WORD) /\ WordBoundary(s, i) /\ WordBoundary(s, i + 2)
            /\ ~(i + 2 <= Len(s) /\ s[i + 2] \in WordSet)
         THEN <<cur>> \o SplitSeparators(s, i + 2, <<>>)
    ELSE SplitSeparators(s, i + 1, Append(cur, s[i]))

\* re.sub(r"^\?\s*", "", term) and re.sub(r"^\?\?\s*", "", term)
StripQuestion(term, n) ==
    IF Len(term) >= n /\ \A k \in 1..n : term[k] = "?"
    THEN SubSeq(term, n + 1 + SpacesFrom(term, n + 1), Len(term))
    ELSE term

\* re.sub(r"^word\s+", "", term, flags=re.IGNORECASE)
StripHedge(term, word) ==
    IF StartsAtNoCase(term, 1, word) /\ SpacesFrom(term, Len(word) + 1) >= 1
    THEN SubSeq(term, Len(word) + 1 + SpacesFrom(term, Len(word) + 1), Len(term))
    ELSE term

LIKELY == <<"l","i","k","e","l","y">>
PROBABLE == <<"p","r","o","b","a","b","l","e">>
POSSIBLE == <<"p","o","s","s","i","b","l","e">>

\* strip_preamble: the five PREAMBLE_PATTERNS, each once, in list order
strip_preamble(term) ==
    LET t0 == Strip(term)
        t1 == Strip(StripQuestion(t0, 1))
        t2 == Strip(StripQuestion(t1, 2))
        t3 == Strip(StripHedge(t2, LIKELY))
        t4 == Strip(StripHedge(t3, PROBABLE))
    IN  Strip(StripHedge(t4, POSSIBLE))

LeadJunk == SpaceChars \cup DigitChars \cup {"?", "!", ".", ",", ":", ")"}
TrailJunk == SpaceChars \cup {"?", "!", ".", ",", ":"}

RECURSIVE LStripSet(_, _)
LStripSet(s, set) == IF s # <<>> /\ Head(s) \in set THEN LStripSet(Tail(s), set) ELSE s

RECURSIVE RStripSet(_, _)
RStripSet(s, set) == IF s # <<>> /\ s[Len(s)] \in set
                     THEN RStripSet(SubSeq(s, 1, Len(s) - 1), set) ELSE s

\* lines 55-57: one fragment cleaned
CleanFragment(t) ==
    LET a == strip_preamble(t)
        b == RStripSet(LStripSet(a, LeadJunk), TrailJunk)
    IN  Strip(DropParens(b, 1, 0))

RECURSIVE CleanFragments(_)
CleanFragments(parts) ==
    IF parts = <<>> THEN <<>>
    ELSE LET t == CleanFragment(Head(parts))
         IN  IF t # <<>> /\ Len(t) > 1 THEN <<t>> \o CleanFragments(Tail(parts))
             ELSE CleanFragments(Tail(parts))

split_terms(text) ==
    IF text = <<>> THEN <<>>
    ELSE LET norm == normalize_text(text)
         IN  IF norm = <<>> THEN <<>>
             ELSE CleanFragments(SplitSeparators(DropParens(norm, 1, LONG_PAREN), 1, <<>>))

\* "; ".join(terms)
RECURSIVE Join(_)
Join(terms) ==
    IF terms = <<>> THEN <<>>
    ELSE IF Len(terms) = 1 THEN terms[1]
    ELSE terms[1] \o <<";", " ">> \o Join(Tail(terms))

(***************************************************************************)
(* Text metrics (text_metrics.py).                                         *)
(***************************************************************************)
FracAdd(a, b) == <<a[1] * b[2] + b[1] * a[2], a[2] * b[2]>>
FracMul(a, b) == <<a[1] * b[1], a[2] * b[2]>>
\* a / b for b > 0
FracDiv(a, b) == <<a[1] * b[2], a[2] * b[1]>>
Zero == <<0, 1>>
One == <<1, 1>>

\* re.sub(r"[^\w\s\-]", " ", text)
PunctToSpace(s) ==
    [i \in 1..Len(s) |->
        IF s[i] \in WordSet \/ IsSpace(s[i]) \/ s[i] = "-" THEN s[i] ELSE " "]

\* str.split(): the non-empty pieces between whitespace runs
RECURSIVE NonEmpty(_)
NonEmpty(ws) ==
    IF ws = <<>> THEN <<>>
    ELSE IF Head(ws) = <<>> THEN NonEmpty(Tail(ws))
    ELSE <<Head(ws)>> \o NonEmpty(Tail(ws))

SplitWhitespace(s) == NonEmpty(ReSplitRuns(s, SpaceChars))

\* str.isdigit()
IsDigitString(t) == t # <<>> /\ \A i \in 1..Len(t) : IsDigit(t[i])

\* the filter of line 21
KeepToken(t) == Len(t) > 1 /\ ~IsDigitString(t)

RECURSIVE FilterTokens(_)
FilterTokens(ts) ==
    IF ts = <<>> THEN <<>>
    ELSE IF KeepToken(Head(ts)) THEN <<Head(ts)>> \o FilterTokens(Tail(ts))
    ELSE FilterTokens(Tail(ts))

tokenize(text) ==
    IF text = <<>> THEN <<>>
    ELSE FilterTokens(SplitWhitespace(PunctToSpace(Lower(text))))

RECURSIVE LcsRow(_, _, _, _, _)
\* LcsRow that takes the diagonal cell on a mismatch
LcsRow_Diagonal(xi, y, prev, curr, j) ==
    IF j > Len(y) THEN curr
    ELSE LET cell == IF xi = y[j] THEN prev[j] + 1 ELSE prev[j]
             nxt == Append(curr, cell)
         IN  IF Len(nxt) = j + 1 THEN LcsRow(xi, y, prev, nxt, j + 1) ELSE <<>>

\* one row of the LCS table: curr[j + 1] is the value of column j
LcsRow(xi, y, prev, curr, j) ==
    IF j > Len(y) THEN curr
    ELSE LET cell == IF xi = y[j] THEN prev[j] + 1
                     ELSE Max2(prev[j + 1], curr[j])
             nxt == Append(curr, cell)
         IN  IF Len(nxt) = j + 1 THEN LcsRow(xi, y, prev, nxt, j + 1) ELSE <<>>

RECURSIVE LcsRows(_, _, _, _)
LcsRows(x, y, prev, i) ==
    IF i > Len(x) THEN prev
    ELSE LET curr == LcsRow(x[i], y, prev, <<0>>, 1)
         IN  IF Len(curr) = Len(y) + 1 THEN LcsRows(x, y, curr, i + 1) ELSE <<>>

lcs_length(x, y) == LcsRows(x, y, [k \in 1..(Len(y) + 1) |-> 0], 1)[Len(y) + 1]

\* lines 66-67 and 99-100
F1Of(precision, recall) ==
    IF FracGT(FracAdd(precision, recall), Zero)
    THEN FracDiv(FracMul(<<2, 1>>, FracMul(precision, recall)),
                 FracAdd(precision, recall))
    ELSE Zero

Scores(p, r, f) == [precision |-> p, recall |-> r, f1 |-> f]

rouge_l(predicted_text, gold_text) ==
    LET pred_tokens == tokenize(predicted_text)
        gold_tokens == tokenize(gold_text)
        lcs_len == lcs_length(pred_tokens, gold_tokens)
        precision == <<lcs_len, Len(pred_tokens)>>
        recall == <<lcs_len, Len(gold_tokens)>>
    IN  IF pred_tokens = <<>> /\ gold_tokens = <<>> THEN Scores(One, One, One)
        ELSE IF pred_tokens = <<>> \/ gold_tokens = <<>> THEN Scores(Zero, Zero, Zero)
        ELSE Scores(precision, recall, F1Of(precision, recall))

SetOf(seq) == {seq[i] : i \in 1..Len(seq)}

\* token_f1 with the recall taken over the predicted tokens
token_f1_RecallOverPred(predicted_text, gold_text) ==
    LET pred_tokens == SetOf(tokenize(predicted_text))
        gold_tokens == SetOf(tokenize(gold_text))
        shared == pred_tokens \cap gold_tokens
        precision == <<Cardinality(shared), Cardinality(pred_tokens)>>
        recall == <<Cardinality(shared), Cardinality(pred_tokens)>>
    IN  IF pred_tokens = {} /\ gold_tokens = {} THEN Scores(One, One, One)
        ELSE IF pred_tokens = {} \/ gold_tokens = {} THEN Scores(Zero, Zero, Zero)
        ELSE Scores(precision, recall, F1Of(precision, recall))

\* token_f1: precision, recall and f1 over the two token sets
token_f1(predicted_text, gold_text) ==
    LET pred_tokens == SetOf(tokenize(predicted_text))
        gold_tokens == SetOf(tokenize(gold_text))
        shared == pred_tokens \cap gold_tokens
        precision == <<Cardinality(shared), Cardinality(pred_tokens)>>
        recall == <<Cardinality(shared), Cardinality(gold_tokens)>>
    IN  IF pred_tokens = {} /\ gold_tokens = {} THEN Scores(One, One, One)
        ELSE IF pred_tokens = {} \/ gold_tokens = {} THEN Scores(Zero, Zero, Zero)
        ELSE Scores(precision, recall, F1Of(precision, recall))

\* equality of two score records as numbers
SameScores(a, b) ==
    /\ FracEQ(a.precision, b.precision)
    /\ FracEQ(a.recall, b.recall)
    /\ FracEQ(a.f1, b.f1)

(***************************************************************************)
(* Inputs of the model.                                                    *)
(***************************************************************************)
Jwara == <<"J","w","a","r","a">>
Jvara == <<"j","v","a","r","a">>
Kasa == <<"K","a","s","a">>
PanduRoga == <<"P","a","n","d","u"," ","R","o","g","a">>
KasaRoga == <<"k","a","s","a"," ","r","o","g","a">>
KasaJwara == <<"k","a","s","a"," ","j","w","a","r","a">>

Terms == {Jwara, Jvara, Kasa, PanduRoga, KasaRoga, KasaJwara}

\* terms split_terms keeps (len(t) > 1) that have no significant word: one of
\* two characters and one made of two stop-words
Tb == <<"T","B">>
VataRoga == <<"V","a","t","a"," ","R","o","g","a">>
IdentityTerms == {Tb, VataRoga, Jwara, Kasa}
AllTerms == Terms \cup IdentityTerms

\* rows of the vocabulary CSV: id, English term, Sanskrit aliases
HeaderRow == << <<"i","d">>, <<"e","n">>, <<"s","a">> >>
RowJwara == << <<"I","1">>, <<"F","e","v","e","r">>,
               <<"1","."," ","j","w","a","r","a",";"," ","j","v","a","r","a","/">> >>
RowKasa == << <<"I","2">>, <<"C","o","u","g","h">>, <<"k","a","s","a">> >>
RowPandu == << <<"I","3">>, <<"A","n","a","e","m","i","a">>,
               <<"p","a","n","d","u","-","r","o","g","a">> >>

VocabSources == { <<HeaderRow>>,
                  <<HeaderRow, RowJwara, RowKasa, RowPandu>> }
Vocabs == {Load(rows) : rows \in VocabSources}

\* the values an entry of the ITA id cache can take
IdValues == {None} \cup UNION {{v.terms[i][1] : i \in 1..Len(v.terms)} : v \in Vocabs}

\* the predicted term lists and gold term sets of a case are bounded
MaxPred == 2
MaxGold == 2

RECURSIVE SeqsUpTo(_, _)
SeqsUpTo(S, n) ==
    IF n = 0 THEN {<<>>}
    ELSE LET shorter == SeqsUpTo(S, n - 1)
         IN  shorter \cup {Append(q, x) : q \in {r \in shorter : Len(r) = n - 1}, x \in S}

PredTexts == {Join(ts) : ts \in SeqsUpTo(Terms, MaxPred)}
GoldSets == {G \in SUBSET Terms : Cardinality(G) <= MaxGold}
IdentityTexts == {Join(ts) : ts \in SeqsUpTo(IdentityTerms, MaxPred)}
IdentityGoldSets == {G \in SUBSET IdentityTerms : Cardinality(G) <= MaxGold}

(***************************************************************************)
(* Greedy field matching (matching.py 75-191).                             *)
(***************************************************************************)
\* line 80-81 for every term and vocabulary of the model, computed once
ResolvedId ==
    [v \in Vocabs |-> [t \in AllTerms |->
        LET match == find_best_match(v, t, MATCH_THRESHOLD)
        IN  IF match # None THEN match[1] ELSE None]]

\* _resolve_ita_ids: term -> ita_id or None
resolve_ita_ids(terms, v) == [t \in terms |-> ResolvedId[v][t]]

\* match_term_to_term on every pair of terms and cached ids, computed once
MatchTier ==
    [p \in AllTerms, g \in AllTerms, a \in IdValues, b \in IdValues |->
        match_term_to_term(p, g, a, b)]

\* split_terms on every prediction of the model, computed once
SplitText == [t \in PredTexts \cup IdentityTexts |-> split_terms(t)]

\* level_priority.get(level, 999)
LevelPriority(level) ==
    CASE level = "ita_match" -> 0
      [] level = "word_overlap" -> 1
      [] level = "fuzzy_match" -> 2
      [] OTHER -> 999

RECURSIVE ScanGold(_, _, _, _, _)
\* ScanGold where a later gold term of equal priority replaces the best
ScanGold_LastWins(pred, golds, cache, best, best_priority) ==
    IF golds = <<>> THEN best
    ELSE LET gold == Head(golds)
             level == MatchTier[pred, gold, cache[pred], cache[gold]]
             priority == LevelPriority(level)
         IN  IF level # "no_match" /\ priority <= best_priority
             THEN ScanGold(pred, Tail(golds), cache, <<gold, level>>, priority)
             ELSE ScanGold(pred, Tail(golds), cache, best, best_priority)

\* ScanGold that only tries the first unconsumed gold term
ScanGold_FirstOnly(pred, golds, cache, best, best_priority) ==
    IF golds = <<>> THEN best
    ELSE LET gold == Head(golds)
             level == MatchTier[pred, gold, cache[pred], cache[gold]]
         IN  IF level # "no_match" /\ LevelPriority(level) < best_priority
             THEN <<gold, level>>
             ELSE best

\* the inner loop, lines 156-164: best is <<best_gold, best_level>>
ScanGold(pred, golds, cache, best, best_priority) ==
    IF golds = <<>> THEN best
    ELSE LET gold == Head(golds)
             level == MatchTier[pred, gold, cache[pred], cache[gold]]
             priority == LevelPriority(level)
         IN  IF level # "no_match" /\ priority < best_priority
             THEN ScanGold(pred, Tail(golds), cache, <<gold, level>>, priority)
             ELSE ScanGold(pred, Tail(golds), cache, best, best_priority)

BestGold(pred, remaining, cache) ==
    ScanGold(pred, remaining, cache, <<None, None>>, 999)

\* list.remove(x): the first occurrence goes
RECURSIVE ListRemove(_, _)
ListRemove(l, x) ==
    IF l = <<>> THEN <<>>
    ELSE IF Head(l) = x THEN Tail(l)
    ELSE <<Head(l)>> \o ListRemove(Tail(l), x)

\* tier_breakdown[level] = tier_breakdown.get(level, 0) + 1
Bump(tb, level) ==
    [l \in (DOMAIN tb) \cup {level} |->
        IF l = level THEN (IF level \in DOMAIN tb THEN tb[level] ELSE 0) + 1
        ELSE tb[l]]

EmptyDict == [l \in {} |-> 0]

TermMatch(p, g, m, lv) == [predicted |-> p, gold |-> g, matched |-> m, level |-> lv]

\* MatchStep that leaves a matched gold term in remaining_gold
MatchStep_KeepsGold(st, pred, cache) ==
    LET best == BestGold(pred, st.remaining_gold, cache)
    IN  IF best[1] # None
        THEN [remaining_gold |-> st.remaining_gold,
              term_matches |-> Append(st.term_matches,
                                      TermMatch(pred, best[1], TRUE, best[2])),
              tier_breakdown |-> Bump(st.tier_breakdown, best[2])]
        ELSE [remaining_gold |-> st.remaining_gold,
              term_matches |-> Append(st.term_matches,
                                      TermMatch(pred, None, FALSE, "no_match")),
              tier_breakdown |-> Bump(st.tier_breakdown, "no_match")]

\* one iteration of the loop over pred_list, lines 149-178, on the loop
\* state st = [remaining_gold, term_matches, tier_breakdown]
MatchStep(st, pred, cache) ==
    LET best == BestGold(pred, st.remaining_gold, cache)
    IN  IF best[1] # None
        THEN [remaining_gold |-> ListRemove(st.remaining_gold, best[1]),
              term_matches |-> Append(st.term_matches,
                                      TermMatch(pred, best[1], TRUE, best[2])),
              tier_breakdown |-> Bump(st.tier_breakdown, best[2])]
        ELSE [remaining_gold |-> st.remaining_gold,
              term_matches |-> Append(st.term_matches,
                                      TermMatch(pred, None, FALSE, "no_match")),
              tier_breakdown |-> Bump(st.tier_breakdown, "no_match")]

CountMatched(term_matches, flag) ==
    Cardinality({i \in 1..Len(term_matches) : term_matches[i].matched = flag})

\* FieldResult that counts every gold term as a false negative
FieldResult_AllGoldMissed(pred_list, gold_list, st) ==
    [tp |-> CountMatched(st.term_matches, TRUE),
     fp |-> CountMatched(st.term_matches, FALSE),
     fn |-> Len(gold_list),
     tier_breakdown |-> st.tier_breakdown,
     predicted_terms |-> pred_list,
     gold_terms |-> gold_list,
     term_matches |-> st.term_matches,
     unmatched_gold |-> st.remaining_gold]

\* lines 180-191
FieldResult(pred_list, gold_list, st) ==
    [tp |-> CountMatched(st.term_matches, TRUE),
     fp |-> CountMatched(st.term_matches, FALSE),
     fn |-> Len(st.remaining_gold),
     tier_breakdown |-> st.tier_breakdown,
     predicted_terms |-> pred_list,
     gold_terms |-> gold_list,
     term_matches |-> st.term_matches,
     unmatched_gold |-> st.remaining_gold]

\* lines 132-138
EmptyResult ==
    [tp |-> 0, fp |-> 0, fn |-> 0, tier_breakdown |-> EmptyDict,
     predicted_terms |-> <<>>, gold_terms |-> <<>>,
     term_matches |-> <<>>, unmatched_gold |-> <<>>]

InitLoop(gold_list) ==
    [remaining_gold |-> gold_list, term_matches |-> <<>>, tier_breakdown |-> EmptyDict]

RECURSIVE MatchLoop(_, _, _, _)
MatchLoop(st, pred_list, i, cache) ==
    IF i > Len(pred_list) THEN st
    ELSE LET nxt == MatchStep(st, pred_list[i], cache)
         IN  IF Len(nxt.term_matches) = i
             THEN MatchLoop(nxt, pred_list, i + 1, cache) ELSE nxt

\* match_field_terms as a function of the predicted list, the gold terms in
\* the order list(gold_terms) yields them, and the vocabulary
match_field_terms(pred_list, gold_list, v) ==
    IF pred_list = <<>> /\ gold_list = <<>> THEN EmptyResult
    ELSE FieldResult(pred_list, gold_list,
                     MatchLoop(InitLoop(gold_list), pred_list, 1,
                               resolve_ita_ids(SetOf(pred_list) \cup SetOf(gold_list), v)))

\* every order in which a set can be iterated
Perms(S) ==
    {f \in [1..Cardinality(S) -> S] : \A i, j \in 1..Cardinality(S) : i # j => f[i] # f[j]}

(***************************************************************************)
(* State: one field of one case scored by compute_vignette_match.          *)
(***************************************************************************)
VARIABLES
    ita_vocab,        \* the loaded ITAVocabulary
    predicted_text,   \* predicted_diagnosis, the raw prediction string
    gold_terms,       \* gold_diagnosis_terms, a set
    pc,               \* "start", "loop", "done"
    pred_list,        \* locals of match_field_terms
    gold_list,
    ita_cache,
    remaining_gold,
    term_matches,
    tier_breakdown,
    pi,               \* position of the loop over pred_list
    result,           \* the field result with its text_metrics
    \* two texts scored by compute_text_metrics, in both argument orders
    text_a,
    text_b,
    tpc,              \* "start", "scored", "both"
    scores_ab,
    scores_ba,
    \* one call of _evaluate_config
    eval_results,     \* pipeline_results
    eval_exclude,     \* exclude_indices
    eval_threshold,   \* threshold, None when not overridden
    eval_k,           \* position of the loop over pipeline_results
    eval_status,      \* "running", "returned", "TypeError"
    eval_matches,     \* config_result_tuples
    \* one call of compute_metrics for the diagnosis field
    vignette_results, \* the field results of the cases
    metrics_k,        \* position of the loop over vignette_results
    metrics_acc,      \* the running totals of the loop
    metrics,          \* the dict returned
    \* the paired test: mcnemar_test and its call in compute_all_stats
    results_a,
    results_b,
    stats_pc,         \* "start", "done"
    stats,            \* outcome of the call
    \* two calls of bootstrap_ci in one process
    boot_results,
    boot_seed,
    n_bootstrap,
    module_rng,       \* state of the module-level generator of random
    boot_pc,          \* "start", "first", "second"
    boot_first,
    boot_second,
    \* ITAVocabulary._load, row by row, on ita_vocab
    load_rows,        \* rows of the CSV, header included
    load_k,           \* position of the loop over rows[1:]
    load_status,      \* "loading", "loaded"
    \* the fuzzy lookups of one term in ita_vocab
    lookup_term,
    lookup_thr,       \* threshold
    lookup_done,      \* the lookups that have returned
    found_bridge,     \* terminology_bridge find_best_match
    found_irr,        \* irr_ayurveda find_best_match
    found_english,    \* find_best_english_match
    \* one call of split_terms
    split_text,
    split_pc,         \* "start", "done"
    split_out,        \* the list returned
    \* PipelineBase.run_all, call after call, on one checkpoint file
    checkpoint,       \* the lines of the JSONL file
    run_pc,           \* "ready", "running"
    run_subset,       \* the vignettes of the call
    run_i,            \* position of the loop over subset
    completed,        \* the dict of _load_completed
    run_results,      \* results
    run_returned,     \* the list the last call returned, None before
    invoked,          \* the calls of process_vignette, in order, with their outcomes
    runs,             \* number of calls of run_all that have returned
    \* run_ablation --reeval followed by compute_all_stats
    raw_files,            \* config name -> the lines of its checkpoint file
    reeval_pc,            \* "start", "evaluated", "done"
    all_config_results,   \* config name -> list of (vignette_index, match_result)
    mcnemar_out,          \* what the McNemar section of compute_all_stats did
    \* one request of analyze answering its detail questions
    serve_pc,             \* "start", "gather", "assembled"
    task_pc,              \* per question: "created", "waiting", "woken", "calling", "done"
    sem_value,            \* the counter of asyncio.Semaphore(5)
    waiters,              \* the tasks blocked in acquire, first come first
    responses,            \* per question: what _call_with_limit returned
    raising,              \* the questions whose call raises
    ayurparam_responses   \* the dict assembled from RESPONSE_KEYS and responses

mvars == <<predicted_text, gold_terms, pc, pred_list, gold_list,
           ita_cache, remaining_gold, term_matches, tier_breakdown, pi,
           result>>
tvars == <<text_a, text_b, tpc, scores_ab, scores_ba>>
evars == <<eval_results, eval_exclude, eval_threshold, eval_k, eval_status,
           eval_matches>>
cvars == <<vignette_results, metrics_k, metrics_acc, metrics>>
pvars == <<results_a, results_b, stats_pc, stats>>
bvars == <<boot_results, boot_seed, n_bootstrap, module_rng, boot_pc,
           boot_first, boot_second>>
dvars == <<load_rows, load_k, load_status>>
lvars == <<lookup_term, lookup_thr, lookup_done, found_bridge, found_irr, found_english>>
gvars == <<split_text, split_pc, split_out>>
kvars == <<checkpoint, run_pc, run_subset, run_i, completed, run_results,
           run_returned, invoked, runs>>
avars == <<raw_files, reeval_pc, all_config_results, mcnemar_out>>
fvars == <<serve_pc, task_pc, sem_value, waiters, responses, raising,
           ayurparam_responses>>
yvars == <<avars, fvars>>
xvars == <<lvars, gvars, kvars, yvars>>
svars == <<cvars, pvars, bvars, dvars, xvars>>
vars == <<ita_vocab, mvars, tvars, evars, svars>>

inputs == <<ita_vocab, predicted_text, gold_terms>>
locals == <<pred_list, gold_list, ita_cache, remaining_gold, term_matches,
            tier_breakdown, pi>>

NoResult == [tp |-> -1]

\* the parts of the state a specification does not use
MatchIdle ==
    /\ predicted_text = <<>>
    /\ gold_terms = {}
    /\ pc = "idle"
    /\ pred_list = <<>>
    /\ gold_list = <<>>
    /\ ita_cache = EmptyDict
    /\ remaining_gold = <<>>
    /\ term_matches = <<>>
    /\ tier_breakdown = EmptyDict
    /\ pi = 1
    /\ result = NoResult

TextIdle ==
    /\ text_a = <<>>
    /\ text_b = <<>>
    /\ tpc = "idle"
    /\ scores_ab = NoResult
    /\ scores_ba = NoResult

EvalIdle ==
    /\ eval_results = <<>>
    /\ eval_exclude = {}
    /\ eval_threshold = None
    /\ eval_k = 1
    /\ eval_status = "idle"
    /\ eval_matches = <<>>

MetricsIdle ==
    /\ vignette_results = <<>>
    /\ metrics_k = 1
    /\ metrics_acc = NoResult
    /\ metrics = NoResult

PairedIdle ==
    /\ results_a = <<>>
    /\ results_b = <<>>
    /\ stats_pc = "idle"
    /\ stats = NoResult

BootIdle ==
    /\ boot_results = <<>>
    /\ boot_seed = 0
    /\ n_bootstrap = 0
    /\ module_rng = 0
    /\ boot_pc = "idle"
    /\ boot_first = NoResult
    /\ boot_second = NoResult

LoadIdle ==
    /\ load_rows = <<>>
    /\ load_k = 1
    /\ load_status = "idle"

LookupIdle ==
    /\ lookup_term = <<>>
    /\ lookup_thr = MATCH_THRESHOLD
    /\ lookup_done = {}
    /\ found_bridge = None
    /\ found_irr = None
    /\ found_english = None

SplitIdle ==
    /\ split_text = <<>>
    /\ split_pc = "idle"
    /\ split_out = <<>>

RunIdle ==
    /\ checkpoint = <<>>
    /\ run_pc = "idle"
    /\ run_subset = <<>>
    /\ run_i = 1
    /\ completed = <<>>
    /\ run_results = <<>>
    /\ run_returned = None
    /\ invoked = <<>>
    /\ runs = 0

AlignIdle ==
    /\ raw_files = <<>>
    /\ reeval_pc = "idle"
    /\ all_config_results = <<>>
    /\ mcnemar_out = <<>>

ServeIdle ==
    /\ serve_pc = "idle"
    /\ task_pc = <<>>
    /\ sem_value = 0
    /\ waiters = <<>>
    /\ responses = <<>>
    /\ raising = {}
    /\ ayurparam_responses = <<>>

NewIdle == AlignIdle /\ ServeIdle

StatsIdleButAlign ==
    MetricsIdle /\ PairedIdle /\ BootIdle /\ LoadIdle /\ LookupIdle /\ SplitIdle /\ RunIdle

ExtraIdle == LookupIdle /\ SplitIdle /\ RunIdle /\ NewIdle

StatsIdle == MetricsIdle /\ PairedIdle /\ BootIdle /\ LoadIdle /\ ExtraIdle

Init ==
    /\ TextIdle
    /\ EvalIdle
    /\ StatsIdle
    /\ ita_vocab \in Vocabs
    /\ predicted_text \in PredTexts
    /\ gold_terms \in GoldSets
    /\ pc = "start"
    /\ pred_list = <<>>
    /\ gold_list = <<>>
    /\ ita_cache = EmptyDict
    /\ remaining_gold = <<>>
    /\ term_matches = <<>>
    /\ tier_breakdown = EmptyDict
    /\ pi = 1
    /\ result = NoResult

\* compute_vignette_match 208-223 for one field
WithTextMetrics(r, text, order) ==
    [tp |-> r.tp, fp |-> r.fp, fn |-> r.fn,
     tier_breakdown |-> r.tier_breakdown,
     predicted_terms |-> r.predicted_terms,
     gold_terms |-> r.gold_terms,
     term_matches |-> r.term_matches,
     unmatched_gold |-> r.unmatched_gold,
     text_metrics |-> [rouge_l |-> rouge_l(text, Join(order)),
                       token_f1 |-> token_f1(text, Join(order))]]

\* compute_vignette_match 208 and match_field_terms 129-147: the prediction
\* is split, the gold set is listed in the order its iteration yields
BeginMatch ==
    /\ pc = "start"
    /\ \E order \in Perms(gold_terms) :
        LET preds == IF predicted_text # <<>> THEN SplitText[predicted_text] ELSE <<>>
        IN  /\ pred_list' = preds
            /\ gold_list' = order
            /\ IF preds = <<>> /\ order = <<>>
               THEN /\ pc' = "done"
                    /\ result' = WithTextMetrics(EmptyResult, predicted_text, order)
                    /\ UNCHANGED <<ita_cache, remaining_gold>>
               ELSE /\ pc' = "loop"
                    /\ ita_cache' = resolve_ita_ids(SetOf(preds) \cup SetOf(order), ita_vocab)
                    /\ remaining_gold' = order
                    /\ UNCHANGED result
    /\ term_matches' = <<>>
    /\ tier_breakdown' = EmptyDict
    /\ pi' = 1
    /\ UNCHANGED <<inputs, tvars, evars, svars>>

\* match_field_terms 149-178: one predicted term
MatchPred ==
    /\ pc = "loop"
    /\ pi <= Len(pred_list)
    /\ LET nxt == MatchStep([remaining_gold |-> remaining_gold,
                             term_matches |-> term_matches,
                             tier_breakdown |-> tier_breakdown],
                            pred_list[pi], ita_cache)
       IN  /\ remaining_gold' = nxt.remaining_gold
           /\ term_matches' = nxt.term_matches
           /\ tier_breakdown' = nxt.tier_breakdown
    /\ pi' = pi + 1
    /\ UNCHANGED <<inputs, pc, pred_list, gold_list, ita_cache, result, tvars,
                   evars, svars>>

\* match_field_terms 180-191 and compute_vignette_match 215-225
FinishMatch ==
    /\ pc = "loop"
    /\ pi > Len(pred_list)
    /\ result' = WithTextMetrics(
                    FieldResult(pred_list, gold_list,
                                [remaining_gold |-> remaining_gold,
                                 term_matches |-> term_matches,
                                 tier_breakdown |-> tier_breakdown]),
                    predicted_text, gold_list)
    /\ pc' = "done"
    /\ UNCHANGED <<inputs, locals, tvars, evars, svars>>

Next == BeginMatch \/ MatchPred \/ FinishMatch

Spec == Init /\ [][Next]_vars

\* the matcher on predictions and gold sets that hold terms without a
\* significant word
IdentityInit ==
    /\ TextIdle
    /\ EvalIdle
    /\ StatsIdle
    /\ ita_vocab \in Vocabs
    /\ predicted_text \in IdentityTexts
    /\ gold_terms \in IdentityGoldSets
    /\ pc = "start"
    /\ pred_list = <<>>
    /\ gold_list = <<>>
    /\ ita_cache = EmptyDict
    /\ remaining_gold = <<>>
    /\ term_matches = <<>>
    /\ tier_breakdown = EmptyDict
    /\ pi = 1
    /\ result = NoResult

SpecIdentity == IdentityInit /\ [][Next]_vars

(***************************************************************************)
(* compute_text_metrics on a pair of texts, in both argument orders.       *)
(***************************************************************************)
WordAb == <<"a","b">>
WordCd == <<"c","d">>
WordCdPunct == <<"C","d",";">>
WordX == <<"x">>
Word12 == <<"1","2">>
TextWords == {WordAb, WordCd, WordCdPunct, WordX, Word12}

\* a text is at most MaxWords words
MaxWords == 2

RECURSIVE JoinSpace(_)
JoinSpace(ws) ==
    IF ws = <<>> THEN <<>>
    ELSE IF Len(ws) = 1 THEN ws[1]
    ELSE ws[1] \o <<" ">> \o JoinSpace(Tail(ws))

Texts == {JoinSpace(ws) : ws \in SeqsUpTo(TextWords, MaxWords)}

compute_text_metrics(predicted_text_, gold_text) ==
    [rouge_l |-> rouge_l(predicted_text_, gold_text),
     token_f1 |-> token_f1(predicted_text_, gold_text)]

TextInit ==
    /\ MatchIdle
    /\ EvalIdle
    /\ StatsIdle
    /\ ita_vocab = EmptyVocab
    /\ text_a \in Texts
    /\ text_b \in Texts
    /\ tpc = "start"
    /\ scores_ab = NoResult
    /\ scores_ba = NoResult

\* compute_text_metrics(text_a, text_b)
ScoreTexts ==
    /\ tpc = "start"
    /\ scores_ab' = compute_text_metrics(text_a, text_b)
    /\ tpc' = "scored"
    /\ UNCHANGED <<ita_vocab, mvars, evars, svars, text_a, text_b, scores_ba>>

\* compute_text_metrics(text_b, text_a)
ScoreSwapped ==
    /\ tpc = "scored"
    /\ scores_ba' = compute_text_metrics(text_b, text_a)
    /\ tpc' = "both"
    /\ UNCHANGED <<ita_vocab, mvars, evars, svars, text_a, text_b, scores_ab>>

TextNext == ScoreTexts \/ ScoreSwapped

SpecText == TextInit /\ [][TextNext]_vars

(***************************************************************************)
(* rouge_l on texts that are token sequences: the same two calls, on       *)
(* inputs long enough for the LCS table to have several rows and columns.  *)
(***************************************************************************)
\* a token sequence is at most MaxTokens words
MaxTokens == 3
LcsWords == {WordAb, WordCd, WordX}
LcsTexts == {JoinSpace(ws) : ws \in SeqsUpTo(LcsWords, MaxTokens)}

LcsInit ==
    /\ MatchIdle
    /\ EvalIdle
    /\ StatsIdle
    /\ ita_vocab = EmptyVocab
    /\ text_a \in LcsTexts
    /\ text_b \in LcsTexts
    /\ tpc = "start"
    /\ scores_ab = NoResult
    /\ scores_ba = NoResult

SpecLcs == LcsInit /\ [][TextNext]_vars

(***************************************************************************)
(* _evaluate_config (run_ablation.py 79-110).                              *)
(***************************************************************************)
\* the parameters compute_vignette_match declares
ComputeVignetteMatchParams ==
    {"predicted_diagnosis", "predicted_treatment", "gold_diagnosis_terms",
     "gold_treatment_terms", "ita_vocab"}

\* the keyword arguments _evaluate_config passes after five positional ones
EvaluateCallKeywords == {"threshold"}

\* a call binds when every keyword names a parameter
CallBinds(keywords, params) == keywords \subseteq params

\* gold diagnosis terms of the vignettes, by index
Vignettes == << {Jwara, Kasa}, {PanduRoga} >>
VignetteIndices == {0, 1}

\* the values of --threshold-sweep, and None for a call without override
THRESHOLDS == {<<70, 100>>, <<75, 100>>, <<80, 100>>, <<85, 100>>, <<90, 100>>}

\* cached pipeline results of the model
MaxResults == 2
PipelineResults ==
    [vignette_index : VignetteIndices, predicted_diagnosis : {<<>>, Jwara, KasaRoga}]

EvalInit ==
    /\ MatchIdle
    /\ TextIdle
    /\ StatsIdle
    /\ ita_vocab = Load(<<HeaderRow, RowJwara, RowKasa, RowPandu>>)
    /\ eval_results \in SeqsUpTo(PipelineResults, MaxResults)
    /\ eval_exclude \in SUBSET VignetteIndices
    /\ eval_threshold \in {None} \cup THRESHOLDS
    /\ eval_k = 1
    /\ eval_status = "running"
    /\ eval_matches = <<>>

\* lines 90-107: one pipeline result
EvaluateCase ==
    /\ eval_status = "running"
    /\ eval_k <= Len(eval_results)
    /\ LET r == eval_results[eval_k]
           gold == Vignettes[r.vignette_index + 1]
           preds == IF r.predicted_diagnosis # <<>>
                    THEN split_terms(r.predicted_diagnosis) ELSE <<>>
       IN  IF eval_exclude # {} /\ r.vignette_index \in eval_exclude
           THEN /\ eval_k' = eval_k + 1
                /\ UNCHANGED <<eval_status, eval_matches>>
           ELSE IF ~CallBinds(EvaluateCallKeywords, ComputeVignetteMatchParams)
           THEN /\ eval_status' = "TypeError"
                /\ UNCHANGED <<eval_k, eval_matches>>
           ELSE /\ \E order \in Perms(gold) :
                     eval_matches' = Append(eval_matches,
                        [vignette_index |-> r.vignette_index,
                         threshold |-> FUZZY_THRESHOLD,
                         match |-> WithTextMetrics(
                                      match_field_terms(preds, order, ita_vocab),
                                      r.predicted_diagnosis, order)])
                /\ eval_k' = eval_k + 1
                /\ UNCHANGED eval_status
    /\ UNCHANGED <<ita_vocab, mvars, tvars, svars, eval_results, eval_exclude,
                   eval_threshold>>

\* lines 109-110
EvaluateReturn ==
    /\ eval_status = "running"
    /\ eval_k > Len(eval_results)
    /\ eval_status' = "returned"
    /\ UNCHANGED <<ita_vocab, mvars, tvars, svars, eval_results, eval_exclude,
                   eval_threshold, eval_k, eval_matches>>

EvalNext == EvaluateCase \/ EvaluateReturn

SpecEval == EvalInit /\ [][EvalNext]_vars

(***************************************************************************)
(* compute_metrics (metrics.py 12-85) for one field.                       *)
(***************************************************************************)
FullVocab == Load(<<HeaderRow, RowJwara, RowKasa, RowPandu>>)

\* the diagnosis part of compute_vignette_match, the gold set iterated in
\* the given order
DiagnosisResult(predicted_diagnosis, order, v) ==
    WithTextMetrics(
        match_field_terms(IF predicted_diagnosis # <<>>
                          THEN split_terms(predicted_diagnosis) ELSE <<>>,
                          order, v),
        predicted_diagnosis, order)

\* the cases of the model: prediction text and gold terms
CaseInputs ==
    { << <<>>, <<>> >>,
      << Jwara, <<Jwara>> >>,
      << Join(<<Jwara, PanduRoga>>), <<Jwara, Kasa>> >>,
      << Kasa, <<>> >>,
      << <<>>, <<Kasa>> >>,
      << Join(<<KasaRoga, Jwara>>), <<Kasa, KasaJwara>> >>,
      << PanduRoga, <<Jwara, Kasa>> >> }

CasePool == {DiagnosisResult(c[1], c[2], FullVocab) : c \in CaseInputs}

\* the number of cases of an evaluation is bounded
MaxCases == 3

\* lines 22-33
InitTotals ==
    [total_tp |-> 0, total_fp |-> 0, total_fn |-> 0, n_scored |-> 0,
     tier_breakdown |-> EmptyDict, n_correct |-> 0,
     rouge_l_scores |-> <<>>, token_f1_scores |-> <<>>]

\* lines 50-51
MergeTiers(tb, counts) ==
    [l \in DOMAIN tb \cup DOMAIN counts |->
        (IF l \in DOMAIN tb THEN tb[l] ELSE 0)
      + (IF l \in DOMAIN counts THEN counts[l] ELSE 0)]

\* MetricsCase that counts every case in n_scored
MetricsCase_ScoresAll(acc, field_result) ==
    LET has_terms == field_result.predicted_terms # <<>>
                     \/ field_result.gold_terms # <<>>
        has_text == "text_metrics" \in DOMAIN field_result
    IN  [total_tp |-> acc.total_tp + field_result.tp,
         total_fp |-> acc.total_fp + field_result.fp,
         total_fn |-> acc.total_fn + field_result.fn,
         n_scored |-> acc.n_scored + 1,
         n_correct |-> IF has_terms /\ field_result.tp > 0
                       THEN acc.n_correct + 1 ELSE acc.n_correct,
         tier_breakdown |-> MergeTiers(acc.tier_breakdown, field_result.tier_breakdown),
         rouge_l_scores |-> IF has_text
                            THEN Append(acc.rouge_l_scores, field_result.text_metrics.rouge_l.f1)
                            ELSE acc.rouge_l_scores,
         token_f1_scores |-> IF has_text
                             THEN Append(acc.token_f1_scores, field_result.text_metrics.token_f1.f1)
                             ELSE acc.token_f1_scores]

\* lines 36-57: one iteration of the loop over vignette_results
MetricsCase(acc, field_result) ==
    LET has_terms == field_result.predicted_terms # <<>>
                     \/ field_result.gold_terms # <<>>
        has_text == "text_metrics" \in DOMAIN field_result
    IN  [total_tp |-> acc.total_tp + field_result.tp,
         total_fp |-> acc.total_fp + field_result.fp,
         total_fn |-> acc.total_fn + field_result.fn,
         n_scored |-> IF has_terms THEN acc.n_scored + 1 ELSE acc.n_scored,
         n_correct |-> IF has_terms /\ field_result.tp > 0
                       THEN acc.n_correct + 1 ELSE acc.n_correct,
         tier_breakdown |-> MergeTiers(acc.tier_breakdown, field_result.tier_breakdown),
         rouge_l_scores |-> IF has_text
                            THEN Append(acc.rouge_l_scores, field_result.text_metrics.rouge_l.f1)
                            ELSE acc.rouge_l_scores,
         token_f1_scores |-> IF has_text
                             THEN Append(acc.token_f1_scores, field_result.text_metrics.token_f1.f1)
                             ELSE acc.token_f1_scores]

RECURSIVE FracSum(_)
FracSum(fs) == IF fs = <<>> THEN Zero ELSE FracAdd(Head(fs), FracSum(Tail(fs)))

\* Average without the test for an empty list
Average_Unguarded(scores) == FracDiv(FracSum(scores), <<Len(scores), 1>>)

\* sum(scores) / len(scores) if scores else 0.0
Average(scores) ==
    IF scores # <<>> THEN FracDiv(FracSum(scores), <<Len(scores), 1>>) ELSE Zero

\* MetricsReturn with the denominators of precision and recall exchanged
MetricsReturn_SwappedDenominators(acc) ==
    LET term_precision == IF acc.total_tp + acc.total_fn > 0
                          THEN <<acc.total_tp, acc.total_tp + acc.total_fn>> ELSE Zero
        term_recall == IF acc.total_tp + acc.total_fp > 0
                       THEN <<acc.total_tp, acc.total_tp + acc.total_fp>> ELSE Zero
    IN  [n_scored |-> acc.n_scored,
         accuracy |-> IF acc.n_scored > 0 THEN <<acc.n_correct, acc.n_scored>> ELSE Zero,
         n_correct |-> acc.n_correct,
         rouge_l |-> Average(acc.rouge_l_scores),
         token_f1 |-> Average(acc.token_f1_scores),
         term_level |-> [tp |-> acc.total_tp, fp |-> acc.total_fp, fn |-> acc.total_fn,
                         precision |-> term_precision,
                         recall |-> term_recall,
                         f1 |-> F1Of(term_precision, term_recall),
                         tier_breakdown |-> acc.tier_breakdown]]

\* lines 59-85: the ratios and the dict returned
MetricsReturn(acc) ==
    LET term_precision == IF acc.total_tp + acc.total_fp > 0
                          THEN <<acc.total_tp, acc.total_tp + acc.total_fp>> ELSE Zero
        term_recall == IF acc.total_tp + acc.total_fn > 0
                       THEN <<acc.total_tp, acc.total_tp + acc.total_fn>> ELSE Zero
    IN  [n_scored |-> acc.n_scored,
         accuracy |-> IF acc.n_scored > 0 THEN <<acc.n_correct, acc.n_scored>> ELSE Zero,
         n_correct |-> acc.n_correct,
         rouge_l |-> Average(acc.rouge_l_scores),
         token_f1 |-> Average(acc.token_f1_scores),
         term_level |-> [tp |-> acc.total_tp, fp |-> acc.total_fp, fn |-> acc.total_fn,
                         precision |-> term_precision,
                         recall |-> term_recall,
                         f1 |-> F1Of(term_precision, term_recall),
                         tier_breakdown |-> acc.tier_breakdown]]

RECURSIVE MetricsLoop(_, _, _)
MetricsLoop(acc, field_results, i) ==
    IF i > Len(field_results) THEN acc
    ELSE LET nxt == MetricsCase(acc, field_results[i])
         IN  IF nxt.n_scored >= 0 THEN MetricsLoop(nxt, field_results, i + 1) ELSE acc

\* compute_metrics(vignette_results, field) on the field results
compute_metrics(field_results) ==
    MetricsReturn(MetricsLoop(InitTotals, field_results, 1))

MetricsInit ==
    /\ MatchIdle
    /\ TextIdle
    /\ EvalIdle
    /\ PairedIdle
    /\ BootIdle
    /\ LoadIdle
    /\ ExtraIdle
    /\ ita_vocab = FullVocab
    /\ vignette_results \in SeqsUpTo(CasePool, MaxCases)
    /\ metrics_k = 1
    /\ metrics_acc = InitTotals
    /\ metrics = NoResult

\* lines 35-57
ScoreCase ==
    /\ metrics = NoResult
    /\ metrics_k <= Len(vignette_results)
    /\ metrics_acc' = MetricsCase(metrics_acc, vignette_results[metrics_k])
    /\ metrics_k' = metrics_k + 1
    /\ UNCHANGED <<ita_vocab, mvars, tvars, evars, xvars, pvars, bvars, dvars,
                   vignette_results, metrics>>

\* lines 59-85
ReturnMetrics ==
    /\ metrics = NoResult
    /\ metrics_k > Len(vignette_results)
    /\ metrics' = MetricsReturn(metrics_acc)
    /\ UNCHANGED <<ita_vocab, mvars, tvars, evars, xvars, pvars, bvars, dvars,
                   vignette_results, metrics_k, metrics_acc>>

MetricsNext == ScoreCase \/ ReturnMetrics

SpecMetrics == MetricsInit /\ [][MetricsNext]_vars

(***************************************************************************)
(* mcnemar_test (stats.py 18-62) and its call in compute_all_stats         *)
(* (stats.py 129-136).                                                     *)
(***************************************************************************)
\* a case that is right (tp > 0) and a case that is wrong
PairInputs == { << Jwara, <<Jwara>> >>, << PanduRoga, <<Jwara, Kasa>> >> }
PairPool == {DiagnosisResult(c[1], c[2], FullVocab) : c \in PairInputs}
RightCase == CHOOSE r \in PairPool : r.tp > 0
WrongCase == CHOOSE r \in PairPool : r.tp = 0

\* the number of cases of a paired comparison is bounded
MaxPairs == 4

\* lines 38-45 over zip(results_a, results_b): <<b, c>>
RECURSIVE DiscordantCounts(_, _, _, _, _)
DiscordantCounts(ra, rb, i, b, c) ==
    IF i > Min2(Len(ra), Len(rb)) THEN <<b, c>>
    ELSE LET a_correct == ra[i].tp > 0
             b_correct == rb[i].tp > 0
         IN  IF a_correct /\ ~b_correct THEN DiscordantCounts(ra, rb, i + 1, b + 1, c)
             ELSE IF ~a_correct /\ b_correct THEN DiscordantCounts(ra, rb, i + 1, b, c + 1)
             ELSE DiscordantCounts(ra, rb, i + 1, b, c)

\* erfc(sqrt(chi2 / 2)), equal to 1 - chi2.cdf(chi2, df=1), in ten-thousandths
\* for the statistics that up to six discordant cases produce
ChiSquareTail ==
    { << <<0, 1>>, 10000 >>, << <<1, 5>>, 6547 >>, << <<1, 3>>, 5637 >>,
      << <<2, 3>>, 4142 >>,  << <<1, 1>>, 3173 >>, << <<9, 5>>, 1797 >>,
      << <<2, 1>>, 1573 >>,  << <<8, 3>>, 1025 >>, << <<3, 1>>, 833 >>,
      << <<4, 1>>, 455 >>,   << <<5, 1>>, 253 >>,  << <<6, 1>>, 143 >> }

PValue(chi2) ==
    LET row == CHOOSE t \in ChiSquareTail : FracEQ(t[1], chi2)
    IN  <<row[2], 10000>>

\* McnemarResult that reports the two discordant counts exchanged
McnemarResult_Exchanged(b, c) ==
    IF b + c = 0 THEN [b |-> c, c |-> b, chi2 |-> Zero, p_value |-> One]
    ELSE LET chi2 == <<(b - c) * (b - c), b + c>>
         IN  [b |-> c, c |-> b, chi2 |-> chi2, p_value |-> PValue(chi2)]

\* lines 47-62
McnemarResult(b, c) ==
    IF b + c = 0 THEN [b |-> b, c |-> c, chi2 |-> Zero, p_value |-> One]
    ELSE LET chi2 == <<(b - c) * (b - c), b + c>>
         IN  [b |-> b, c |-> c, chi2 |-> chi2, p_value |-> PValue(chi2)]

\* mcnemar_test once the assert of lines 30-32 has passed or been compiled out
mcnemar_test(ra, rb) ==
    LET counts == DiscordantCounts(ra, rb, 1, 0, 0)
    IN  McnemarResult(counts[1], counts[2])

PairedInit ==
    /\ MatchIdle
    /\ TextIdle
    /\ EvalIdle
    /\ MetricsIdle
    /\ BootIdle
    /\ LoadIdle
    /\ ExtraIdle
    /\ ita_vocab = FullVocab
    /\ results_a \in SeqsUpTo(PairPool, MaxPairs)
    /\ results_b \in SeqsUpTo(PairPool, MaxPairs)
    /\ stats_pc = "start"
    /\ stats = NoResult

\* a direct call of mcnemar_test; the assert statement is not executed when
\* the interpreter runs with -O
McnemarTest ==
    /\ stats_pc = "start"
    /\ \E optimized \in BOOLEAN :
          stats' = IF ~optimized /\ Len(results_a) # Len(results_b)
                   THEN [caller |-> "mcnemar_test", status |-> "AssertionError",
                         value |-> NoResult]
                   ELSE [caller |-> "mcnemar_test", status |-> "returned",
                         value |-> mcnemar_test(results_a, results_b)]
    /\ stats_pc' = "done"
    /\ UNCHANGED <<ita_vocab, mvars, tvars, evars, xvars, cvars, bvars, dvars,
                   results_a, results_b>>

\* compute_all_stats, lines 130-136, with full_pipeline = results_a and
\* direct_llm = results_b: the comparison is left out when the lengths differ
ComputeAllStatsMcnemar ==
    /\ stats_pc = "start"
    /\ stats' = IF Len(results_a) = Len(results_b)
                THEN [caller |-> "compute_all_stats", status |-> "returned",
                      value |-> mcnemar_test(results_a, results_b)]
                ELSE [caller |-> "compute_all_stats", status |-> "skipped",
                      value |-> NoResult]
    /\ stats_pc' = "done"
    /\ UNCHANGED <<ita_vocab, mvars, tvars, evars, xvars, cvars, bvars, dvars,
                   results_a, results_b>>

PairedNext == McnemarTest \/ ComputeAllStatsMcnemar

SpecStats == PairedInit /\ [][PairedNext]_vars

(***************************************************************************)
(* bootstrap_ci (stats.py 68-106).  random.Random(seed) is a generator     *)
(* whose stream of raw draws is fixed by the seed; the streams of the      *)
(* model repeat a short cycle.  A generator is [owner, stream, pos].       *)
(***************************************************************************)
Seeds == 0..3
RawStream ==
    [s \in Seeds |-> CASE s = 0 -> <<0>>
                       [] s = 1 -> <<0, 1>>
                       [] s = 2 -> <<1, 0, 0>>
                       [] s = 3 -> <<2, 0, 1, 1, 0>>]

\* random.Random(seed)
Seeded(seed) == [owner |-> "call", stream |-> seed, pos |-> 0]

\* the generator behind the functions of the random module
ModuleGenerator == [owner |-> "module", stream |-> 3, pos |-> 0]

\* rng.randint(0, n - 1): <<value, generator after the draw>>
RandInt(rng, n) ==
    LET cycle == RawStream[rng.stream]
    IN  << cycle[rng.pos + 1] % n,
           [owner |-> rng.owner, stream |-> rng.stream,
            pos |-> (rng.pos + 1) % Len(cycle)] >>

\* line 93: n draws, one after the other: <<sample_indices, generator>>
RECURSIVE DrawIndices(_, _, _, _)
DrawIndices(rng, n, k, indices) ==
    IF k >= n THEN <<indices, rng>>
    ELSE LET d == RandInt(rng, n)
         IN  DrawIndices(d[2], n, k + 1, Append(indices, d[1]))

\* the metric the interval is computed for
BootMetric == "accuracy"

\* the generator after `draws` more draws
Advance(rng, draws) ==
    [owner |-> rng.owner, stream |-> rng.stream,
     pos |-> (rng.pos + draws) % Len(RawStream[rng.stream])]

\* lines 93-96: one resample drawn from rng, and the metric on it
Resample(field_results, rng, metric_name) ==
    LET n == Len(field_results)
        sample_indices == DrawIndices(rng, n, 0, <<>>)[1]
        sample == [i \in 1..n |-> field_results[sample_indices[i] + 1]]
    IN  compute_metrics(sample)[metric_name]

\* the loop of lines 92-96: resample k draws its n indices from the
\* generator as the k - 1 resamples before it left it:
\* <<boot_values, generator after the last draw>>
Resamples(field_results, rng, nb, metric_name) ==
    LET n == Len(field_results)
    IN  << [k \in 1..nb |-> Resample(field_results, Advance(rng, (k - 1) * n), metric_name)],
           Advance(rng, nb * n) >>

FracLess(a, b) == a[1] * b[2] < b[1] * a[2]

\* SortedValues that leaves the values in the order of the resamples
SortedValues_Unsorted(boot_values) == boot_values

\* line 98: boot_values.sort()
SortedValues(boot_values) == SortSeq(boot_values, FracLess)

\* lines 99-100: int(n_bootstrap * 0.025) and int(n_bootstrap * 0.975)
LowerIndex(nb) == (nb * 25) \div 1000
UpperIndex(nb) == (nb * 975) \div 1000

\* BootGenerator that draws from the generator of the random module
BootGenerator_Module(seed, module_state) == module_state

\* line 84: the generator of a call
BootGenerator(seed, module_state) == Seeded(seed)

\* bootstrap_ci from line 85 on, drawing from rng: the dict returned, the
\* sorted boot_values and the generator after the last draw
bootstrap_ci(field_results, metric_name, nb, rng) ==
    LET point == compute_metrics(field_results)[metric_name]
        run == Resamples(field_results, rng, nb, metric_name)
        sorted == SortedValues(run[1])
    IN  [status |-> "returned",
         value |-> [point_estimate |-> point,
                    ci_lower |-> sorted[LowerIndex(nb) + 1],
                    ci_upper |-> sorted[UpperIndex(nb) + 1]],
         boot_values |-> sorted,
         rng |-> run[2]]

BootInputs == PairInputs \cup { << <<>>, <<>> >> }
BootPool == {DiagnosisResult(c[1], c[2], FullVocab) : c \in BootInputs}

\* the number of cases resampled is bounded
MaxBootCases == 2

\* the values of n_bootstrap
BootSizes == {1, 2, 3, 1000}

BootInit ==
    /\ MatchIdle
    /\ TextIdle
    /\ EvalIdle
    /\ MetricsIdle
    /\ PairedIdle
    /\ LoadIdle
    /\ ExtraIdle
    /\ ita_vocab = FullVocab
    /\ boot_results \in SeqsUpTo(BootPool, MaxBootCases)
    /\ boot_seed \in Seeds
    /\ n_bootstrap \in BootSizes
    /\ module_rng = ModuleGenerator
    /\ boot_pc = "start"
    /\ boot_first = NoResult
    /\ boot_second = NoResult

\* the generator a call drew from is the one it has advanced
AfterCall(rng0, out) == IF rng0.owner = "module" THEN out.rng ELSE module_rng

\* bootstrap_ci(boot_results, field, metric, n_bootstrap, boot_seed)
FirstCall ==
    /\ boot_pc = "start"
    /\ LET rng0 == BootGenerator(boot_seed, module_rng)
           out == bootstrap_ci(boot_results, BootMetric, n_bootstrap, rng0)
       IN  /\ boot_first' = out
           /\ module_rng' = AfterCall(rng0, out)
    /\ boot_pc' = "first"
    /\ UNCHANGED <<ita_vocab, mvars, tvars, evars, xvars, cvars, pvars, dvars,
                   boot_results, boot_seed, n_bootstrap, boot_second>>

\* the same call again, later in the same process
SecondCall ==
    /\ boot_pc = "first"
    /\ LET rng0 == BootGenerator(boot_seed, module_rng)
           out == bootstrap_ci(boot_results, BootMetric, n_bootstrap, rng0)
       IN  /\ boot_second' = out
           /\ module_rng' = AfterCall(rng0, out)
    /\ boot_pc' = "second"
    /\ UNCHANGED <<ita_vocab, mvars, tvars, evars, xvars, cvars, pvars, dvars,
                   boot_results, boot_seed, n_bootstrap, boot_first>>

BootNext == FirstCall \/ SecondCall

SpecBoot == BootInit /\ [][BootNext]_vars

(***************************************************************************)
(* ITAVocabulary._load, a row of the source at a time.                     *)
(***************************************************************************)
\* a row of two fields
RowShort == << <<"I","4">>, <<"C","o","l","d">> >>
\* the id of RowJwara again, with the English term and the alias of RowKasa
RowRepeat == << <<"I","1">>, <<"c","o","u","g","h"," ">>, <<"K","a","s","a">> >>
\* a row whose Sanskrit field is empty
RowNoAlias == << <<"I","5">>, <<"P","a","i","n">>, <<>> >>

RowPool == {RowJwara, RowKasa, RowPandu, RowShort, RowRepeat, RowNoAlias}

\* the number of rows after the header is bounded
MaxRows == 3

\* the rows csv.reader gives: none for an empty file, else the header and
\* the rows after it
LoadSources == {<<>>} \cup {<<HeaderRow>> \o rows : rows \in SeqsUpTo(RowPool, MaxRows)}

\* lines 55-64: the three tables are empty and the rows are read
LoadInit ==
    /\ MatchIdle
    /\ TextIdle
    /\ EvalIdle
    /\ MetricsIdle
    /\ PairedIdle
    /\ BootIdle
    /\ ExtraIdle
    /\ ita_vocab = EmptyVocab
    /\ load_rows \in LoadSources
    /\ load_k = 2
    /\ load_status = "loading"

\* lines 66-86: the next row of rows[1:]
LoadNextRow ==
    /\ load_status = "loading"
    /\ load_k <= Len(load_rows)
    /\ ita_vocab' = LoadRow(ita_vocab, load_rows[load_k])
    /\ load_k' = load_k + 1
    /\ UNCHANGED <<mvars, tvars, evars, xvars, cvars, pvars, bvars, load_rows, load_status>>

\* the loop of line 66 is exhausted and the constructor returns
FinishLoad ==
    /\ load_status = "loading"
    /\ load_k > Len(load_rows)
    /\ load_status' = "loaded"
    /\ UNCHANGED <<ita_vocab, mvars, tvars, evars, xvars, cvars, pvars, bvars, load_rows, load_k>>

LoadNext == LoadNextRow \/ FinishLoad

SpecLoad == LoadInit /\ [][LoadNext]_vars

(***************************************************************************)
(* The fuzzy lookups of one term: find_best_match of terminology_bridge    *)
(* and of irr_ayurveda, and find_best_english_match.                       *)
(***************************************************************************)
\* the queries: the terms of the cases and near misses of the keys
LookupTerms ==
    Terms \cup { <<"j","w","a","r">>, <<"k","a","s">>, <<"k","a","a","s","a">>,
                 <<"f","e","v","e">>, <<"F","e","v","e","r">>, <<"a","n","a","e">>,
                 <<"a","n","e","m","i","a">>, <<"c","o","u","g","h","s">>,
                 <<"p","a","n","d","u","r","o">>, <<>> }

\* 0.60 and 0.75 are the defaults of the two lookups, 0.80 is
\* FUZZY_THRESHOLD, 0.85 the default of build_bridge_context
LookupThresholds == { <<60, 100>>, MATCH_THRESHOLD, <<80, 100>>, <<85, 100>> }

LookupVocabs == { FullVocab, Load(<<HeaderRow, RowKasa, RowJwara>>) }

LookupInit ==
    /\ MatchIdle
    /\ TextIdle
    /\ EvalIdle
    /\ MetricsIdle
    /\ PairedIdle
    /\ BootIdle
    /\ LoadIdle
    /\ SplitIdle
    /\ RunIdle
    /\ NewIdle
    /\ ita_vocab \in LookupVocabs
    /\ lookup_term \in LookupTerms
    /\ lookup_thr \in LookupThresholds
    /\ lookup_done = {}
    /\ found_bridge = None
    /\ found_irr = None
    /\ found_english = None

\* terminology_bridge: ita_vocab.find_best_match(term, threshold)
FindBestMatch ==
    /\ "bridge" \notin lookup_done
    /\ found_bridge' = find_best_match(ita_vocab, lookup_term, lookup_thr)
    /\ lookup_done' = lookup_done \cup {"bridge"}
    /\ UNCHANGED <<ita_vocab, mvars, tvars, evars, cvars, pvars, bvars, dvars, yvars, gvars, kvars,
                   lookup_term, lookup_thr, found_irr, found_english>>

\* irr_ayurveda: ita_vocab.find_best_match(term, threshold)
IrrFindBestMatch ==
    /\ "irr" \notin lookup_done
    /\ found_irr' = irr_find_best_match(ita_vocab, lookup_term, lookup_thr)
    /\ lookup_done' = lookup_done \cup {"irr"}
    /\ UNCHANGED <<ita_vocab, mvars, tvars, evars, cvars, pvars, bvars, dvars, yvars, gvars, kvars,
                   lookup_term, lookup_thr, found_bridge, found_english>>

\* ita_vocab.find_best_english_match(term, threshold)
FindBestEnglishMatch ==
    /\ "english" \notin lookup_done
    /\ found_english' = find_best_english_match(ita_vocab, lookup_term, lookup_thr)
    /\ lookup_done' = lookup_done \cup {"english"}
    /\ UNCHANGED <<ita_vocab, mvars, tvars, evars, cvars, pvars, bvars, dvars, yvars, gvars, kvars,
                   lookup_term, lookup_thr, found_bridge, found_irr>>

LookupNext == FindBestMatch \/ IrrFindBestMatch \/ FindBestEnglishMatch

SpecLookup == LookupInit /\ [][LookupNext]_vars

(***************************************************************************)
(* The scoring functions on sparse data: one field scored by               *)
(* compute_vignette_match, its texts by compute_text_metrics, a list of    *)
(* such cases by compute_metrics and by the paired test.                   *)
(***************************************************************************)
\* <<predicted text, gold terms>>: nothing predicted and nothing expected,
\* only one of the two, terms that all end as no_match, and a correct case
SparseInputs ==
    { << <<>>, <<>> >>,
      << Kasa, <<>> >>,
      << <<>>, <<Kasa>> >>,
      << PanduRoga, <<Jwara, Kasa>> >>,
      << Jwara, <<Jwara>> >> }

\* each input with the field result compute_vignette_match gives for it
SparsePool == {<<c[1], c[2], DiagnosisResult(c[1], c[2], FullVocab)>> : c \in SparseInputs}

\* the number of cases of a sparse evaluation is bounded
MaxSparseCases == 2

SparseInit ==
    /\ EvalIdle
    /\ BootIdle
    /\ LoadIdle
    /\ ExtraIdle
    /\ ita_vocab = FullVocab
    /\ \E sc \in SparsePool : \E n \in 0..MaxSparseCases :
          /\ predicted_text = sc[1]
          /\ gold_terms = SetOf(sc[2])
          /\ text_a = sc[1]
          /\ text_b = Join(sc[2])
          /\ vignette_results = [i \in 1..n |-> sc[3]]
          /\ results_a = [i \in 1..n |-> sc[3]]
          /\ results_b = [i \in 1..n |-> sc[3]]
    /\ pc = "start"
    /\ pred_list = <<>>
    /\ gold_list = <<>>
    /\ ita_cache = EmptyDict
    /\ remaining_gold = <<>>
    /\ term_matches = <<>>
    /\ tier_breakdown = EmptyDict
    /\ pi = 1
    /\ result = NoResult
    /\ tpc = "start"
    /\ scores_ab = NoResult
    /\ scores_ba = NoResult
    /\ metrics_k = 1
    /\ metrics_acc = InitTotals
    /\ metrics = NoResult
    /\ stats_pc = "start"
    /\ stats = NoResult

SparseNext == Next \/ TextNext \/ MetricsNext \/ PairedNext

SpecSparse == SparseInit /\ [][SparseNext]_vars

(***************************************************************************)
(* split_terms on texts with hedges and numbering.                         *)
(***************************************************************************)
\* the pieces a text is put together from
SplitPieces ==
    { <<"l","i","k","e","l","y"," ">>, <<"P","o","s","s","i","b","l","e"," ">>,
      <<"?"," ">>, <<"1",")"," ">>, <<";"," ">>, Jwara }

\* a text is at most MaxPieces pieces
MaxPieces == 3

RECURSIVE Concat(_)
Concat(pieces) == IF pieces = <<>> THEN <<>> ELSE Head(pieces) \o Concat(Tail(pieces))

SplitInputs == {Concat(ps) : ps \in SeqsUpTo(SplitPieces, MaxPieces)}

SplitInit ==
    /\ MatchIdle
    /\ TextIdle
    /\ EvalIdle
    /\ MetricsIdle
    /\ PairedIdle
    /\ BootIdle
    /\ LoadIdle
    /\ LookupIdle
    /\ RunIdle
    /\ NewIdle
    /\ ita_vocab = EmptyVocab
    /\ split_text \in SplitInputs
    /\ split_pc = "start"
    /\ split_out = <<>>

\* split_terms(split_text)
SplitTerms ==
    /\ split_pc = "start"
    /\ split_out' = split_terms(split_text)
    /\ split_pc' = "done"
    /\ UNCHANGED <<ita_vocab, mvars, tvars, evars, cvars, pvars, bvars, dvars, yvars, lvars, kvars,
                   split_text>>

SplitNext == SplitTerms

SpecSplit == SplitInit /\ [][SplitNext]_vars

(***************************************************************************)
(* PipelineBase.run_all with its JSONL checkpoint (pipelines/base.py).     *)
(***************************************************************************)
\* load_vignettes numbers the vignettes 0 .. n - 1
MaxVignettes == 3
AllVignettes == [i \in 1..MaxVignettes |-> i - 1]

\* the number of calls of run_all is bounded
MaxRuns == 2

\* the values of limit: None, or a number of vignettes
Limits == {[given |-> FALSE, n |-> 0]} \cup {[given |-> TRUE, n |-> n] : n \in 0..MaxVignettes}

\* line 84: vignettes[:limit] if limit else vignettes
Subset(vignettes, limit) ==
    IF limit.given /\ limit.n # 0
    THEN SubSeq(vignettes, 1, Min2(limit.n, Len(vignettes)))
    ELSE vignettes

\* what process_vignette does: it returns a prediction, or raises an
\* exception e with the text str(e)
Outcomes == { [raised |-> FALSE, text |-> <<"d","x">>],
              [raised |-> TRUE, text |-> <<"t","i","m","e","o","u","t">>],
              [raised |-> TRUE, text |-> <<>>] }

\* lines 100-110: the PipelineResult of a processed vignette, the fields
\* not given in the except branch at their defaults
ProcessedResult(index, outcome) ==
    IF outcome.raised
    THEN [vignette_index |-> index, predicted_diagnosis |-> <<>>,
          predicted_treatment |-> <<>>, error |-> outcome.text]
    ELSE [vignette_index |-> index, predicted_diagnosis |-> outcome.text,
          predicted_treatment |-> outcome.text, error |-> <<>>]

\* line 67: json.dumps(asdict(result)), one line; integers and strings are
\* written as JSON numbers and strings
CheckpointLine(res) ==
    [vignette_index |-> [json |-> "number", value |-> res.vignette_index],
     predicted_diagnosis |-> [json |-> "string", value |-> res.predicted_diagnosis],
     predicted_treatment |-> [json |-> "string", value |-> res.predicted_treatment],
     error |-> [json |-> "string", value |-> res.error]]

\* lines 53-60: the PipelineResult built from the fields of a line
ResultOfLine(record) ==
    [vignette_index |-> record.vignette_index.value,
     predicted_diagnosis |-> record.predicted_diagnosis.value,
     predicted_treatment |-> record.predicted_treatment.value,
     error |-> record.error.value]

RECURSIVE LoadCompleted_TruthyIndex(_, _)
\* _load_completed that keeps a record only when its index is truthy
LoadCompleted_TruthyIndex(lines, done) ==
    IF lines = <<>> THEN done
    ELSE LET record == Head(lines)
             idx == record.vignette_index.value
         IN  IF idx # 0
             THEN LoadCompleted_TruthyIndex(Tail(lines), DictSet(done, idx, ResultOfLine(record)))
             ELSE LoadCompleted_TruthyIndex(Tail(lines), done)

RECURSIVE LoadCompleted_SkipsErrors(_, _)
\* _load_completed that leaves out the records of failed vignettes
LoadCompleted_SkipsErrors(lines, done) ==
    IF lines = <<>> THEN done
    ELSE LET record == Head(lines)
             idx == record.vignette_index.value
         IN  IF record.error.value = <<>>
             THEN LoadCompleted_SkipsErrors(Tail(lines), DictSet(done, idx, ResultOfLine(record)))
             ELSE LoadCompleted_SkipsErrors(Tail(lines), done)

RECURSIVE LoadCompleted(_, _)
\* _load_completed, lines 44-62: completed[idx] for every line, a later
\* line of an index replacing an earlier one
LoadCompleted(lines, done) ==
    IF lines = <<>> THEN done
    ELSE LET record == Head(lines)
             idx == record.vignette_index.value
         IN  IF record.vignette_index.json # "null"
             THEN LoadCompleted(Tail(lines), DictSet(done, idx, ResultOfLine(record)))
             ELSE LoadCompleted(Tail(lines), done)

\* the checkpoint file does not exist before the first call
RunInit ==
    /\ MatchIdle
    /\ TextIdle
    /\ EvalIdle
    /\ MetricsIdle
    /\ PairedIdle
    /\ BootIdle
    /\ LoadIdle
    /\ LookupIdle
    /\ SplitIdle
    /\ NewIdle
    /\ ita_vocab = EmptyVocab
    /\ checkpoint = <<>>
    /\ run_pc = "ready"
    /\ run_subset = <<>>
    /\ run_i = 1
    /\ completed = <<>>
    /\ run_results = <<>>
    /\ run_returned = None
    /\ invoked = <<>>
    /\ runs = 0

\* lines 82-85: run_all(vignettes, limit) begins
BeginRunAll ==
    /\ run_pc = "ready"
    /\ runs < MaxRuns
    /\ \E limit \in Limits : run_subset' = Subset(AllVignettes, limit)
    /\ completed' = LoadCompleted(checkpoint, <<>>)
    /\ run_results' = <<>>
    /\ run_i' = 1
    /\ run_pc' = "running"
    /\ UNCHANGED <<ita_vocab, mvars, tvars, evars, cvars, pvars, bvars, dvars, yvars, lvars,
                   gvars, checkpoint, run_returned, invoked, runs>>

\* lines 93-96: the vignette is in completed
CachedVignette ==
    /\ run_pc = "running"
    /\ run_i <= Len(run_subset)
    /\ DictHas(completed, run_subset[run_i])
    /\ run_results' = Append(run_results, DictGet(completed, run_subset[run_i]))
    /\ run_i' = run_i + 1
    /\ UNCHANGED <<ita_vocab, mvars, tvars, evars, cvars, pvars, bvars, dvars, yvars, lvars,
                   gvars, checkpoint, run_pc, run_subset, completed, run_returned,
                   invoked, runs>>

\* lines 98-115: process_vignette is called, its result or the record of
\* its exception is saved and appended
ProcessVignette ==
    /\ run_pc = "running"
    /\ run_i <= Len(run_subset)
    /\ ~DictHas(completed, run_subset[run_i])
    /\ \E outcome \in Outcomes :
          LET res == ProcessedResult(run_subset[run_i], outcome)
          IN  /\ checkpoint' = Append(checkpoint, CheckpointLine(res))
              /\ run_results' = Append(run_results, res)
              /\ invoked' = Append(invoked, [index |-> run_subset[run_i],
                                             outcome |-> outcome])
    /\ run_i' = run_i + 1
    /\ UNCHANGED <<ita_vocab, mvars, tvars, evars, cvars, pvars, bvars, dvars, yvars, lvars,
                   gvars, run_pc, run_subset, completed, run_returned, runs>>

\* line 117
ReturnRunAll ==
    /\ run_pc = "running"
    /\ run_i > Len(run_subset)
    /\ run_returned' = run_results
    /\ runs' = runs + 1
    /\ run_pc' = "ready"
    /\ UNCHANGED <<ita_vocab, mvars, tvars, evars, cvars, pvars, bvars, dvars, yvars, lvars,
                   gvars, checkpoint, run_subset, run_i, completed, run_results, invoked>>

RunNext == BeginRunAll \/ CachedVignette \/ ProcessVignette \/ ReturnRunAll

SpecRun == RunInit /\ [][RunNext]_vars

(***************************************************************************)
(* Properties of the matcher.                                              *)
(***************************************************************************)
Matched(ms) == {i \in 1..Len(ms) : ms[i].matched}
AssignedGold(ms) == {ms[i].gold : i \in Matched(ms)}

\* the tier of a pair of terms of the case being scored
PairTier(p, g) == MatchTier[p, g, ResolvedId[ita_vocab][p], ResolvedId[ita_vocab][g]]

\* C1: when match_field_terms returns, tp + fp is the number of predicted
\* terms and tp + fn is the number of gold terms
C1_Conservation ==
    pc = "done" =>
        /\ result.tp + result.fp = Len(pred_list)
        /\ result.tp + result.fn = Cardinality(gold_terms)

\* a finished case with a matched term, an unmatched prediction and an
\* unmatched gold term
C1_Witness ==
    pc = "done" /\ result.tp >= 1 /\ result.fp >= 1 /\ result.fn >= 1

\* the candidates of the predicted term at position pi: positions of the
\* unconsumed gold terms that match it at some tier
Candidates == {k \in 1..Len(remaining_gold) :
                  PairTier(pred_list[pi], remaining_gold[k]) # "no_match"}
CandPriority(k) == LevelPriority(PairTier(pred_list[pi], remaining_gold[k]))
\* the candidate of lowest tier priority, the first in iteration order among equals
Chosen == CHOOSE k \in Candidates :
              \A j \in Candidates :
                  \/ CandPriority(k) < CandPriority(j)
                  \/ CandPriority(k) = CandPriority(j) /\ k <= j
WithoutPosition(l, k) == SubSeq(l, 1, k - 1) \o SubSeq(l, k + 1, Len(l))

\* C2: every step of the loop takes the next predicted term in the given
\* order and assigns it the unconsumed gold term of lowest tier priority,
\* the first in gold iteration order among equals, or records no_match with
\* gold = none when no unconsumed gold term matches
C2_GreedySelection ==
    [][ (pc = "loop" /\ pi' = pi + 1) =>
          /\ Len(term_matches') = pi
          /\ SubSeq(term_matches', 1, pi - 1) = term_matches
          /\ term_matches'[pi].predicted = pred_list[pi]
          /\ IF Candidates = {}
             THEN /\ term_matches'[pi].gold = None
                  /\ term_matches'[pi].level = "no_match"
                  /\ ~term_matches'[pi].matched
                  /\ remaining_gold' = remaining_gold
             ELSE /\ term_matches'[pi].gold = remaining_gold[Chosen]
                  /\ term_matches'[pi].level = PairTier(pred_list[pi], remaining_gold[Chosen])
                  /\ term_matches'[pi].matched
                  /\ remaining_gold' = WithoutPosition(remaining_gold, Chosen) ]_vars

\* a predicted term was matched although another gold term, unconsumed to
\* the end and earlier or later in the order, matched it at the same tier
C2_Witness ==
    /\ pc = "done"
    /\ \E i \in Matched(term_matches) : \E g \in SetOf(remaining_gold) :
          PairTier(term_matches[i].predicted, g) = term_matches[i].level

\* C3: no gold term is assigned to two predicted terms, an assigned gold
\* term is no longer in the pool, and unmatched_gold is exactly the gold
\* terms never assigned
C3_OneToOne ==
    /\ \A i, j \in Matched(term_matches) :
          i # j => term_matches[i].gold # term_matches[j].gold
    /\ AssignedGold(term_matches) \cap SetOf(remaining_gold) = {}
    /\ pc = "done" =>
          /\ SetOf(result.unmatched_gold) = gold_terms \ AssignedGold(result.term_matches)
          /\ Len(result.unmatched_gold) = Cardinality(SetOf(result.unmatched_gold))

\* a later predicted term stayed unmatched although it matches a gold term
\* that an earlier predicted term had consumed
C3_Witness ==
    /\ pc = "done"
    /\ \E i \in Matched(term_matches) : \E j \in 1..Len(term_matches) :
          /\ i < j
          /\ ~term_matches[j].matched
          /\ PairTier(term_matches[j].predicted, term_matches[i].gold) # "no_match"

\* the three tier conditions, each on its own
SameIdTable ==
    [a \in IdValues, b \in IdValues |-> a # None /\ a # <<>> /\ b # None /\ b # <<>> /\ a = b]
WordOverlapTable ==
    [p \in Terms, g \in Terms |->
        (get_significant_words(p) \cap get_significant_words(g)) # {}]
FuzzyTable ==
    [p \in Terms, g \in Terms |->
        /\ Len(Strip(Lower(p))) >= 3
        /\ Len(Strip(Lower(g))) >= 3
        /\ 100 * (Max2(Len(Strip(Lower(p))), Len(Strip(Lower(g))))
                   - levenshtein(Strip(Lower(p)), Strip(Lower(g))))
             >= 80 * Max2(Len(Strip(Lower(p))), Len(Strip(Lower(g))))]
FirstTier(p, g, a, b) ==
    IF SameIdTable[a, b] THEN "ita_match"
    ELSE IF WordOverlapTable[p, g] THEN "word_overlap"
    ELSE IF FuzzyTable[p, g] THEN "fuzzy_match"
    ELSE "no_match"

\* C4: the level reported for a pair is the first of ita_match,
\* word_overlap, fuzzy_match whose condition holds; a pair that qualifies
\* under both word overlap and fuzzy similarity is never reported fuzzy_match
C4_TierPriority ==
    pc # "start" =>
        /\ \A p \in SetOf(pred_list) : \A g \in gold_terms :
              /\ MatchTier[p, g, ita_cache[p], ita_cache[g]]
                    = FirstTier(p, g, ita_cache[p], ita_cache[g])
              /\ (WordOverlapTable[p, g] /\ FuzzyTable[p, g])
                    => MatchTier[p, g, ita_cache[p], ita_cache[g]] # "fuzzy_match"
        /\ \A i \in Matched(term_matches) :
              term_matches[i].level
                 = FirstTier(term_matches[i].predicted, term_matches[i].gold,
                             ita_cache[term_matches[i].predicted],
                             ita_cache[term_matches[i].gold])

\* a recorded word_overlap match whose pair also passes the fuzzy test
C4_Witness ==
    /\ pc = "done"
    /\ \E i \in Matched(term_matches) :
          /\ term_matches[i].level = "word_overlap"
          /\ FuzzyTable[term_matches[i].predicted, term_matches[i].gold]

\* the outputs of compute_vignette_match that the case scores are made of
SameOutputs(a, b) ==
    /\ a.tp = b.tp /\ a.fp = b.fp /\ a.fn = b.fn
    /\ a.tier_breakdown = b.tier_breakdown
    /\ SameScores(a.text_metrics.rouge_l, b.text_metrics.rouge_l)

\* C5: the outputs of a case do not depend on the order in which the gold
\* term set is iterated
C5_Determinism ==
    pc = "done" =>
        \A order \in Perms(gold_terms) :
            SameOutputs(result,
                        WithTextMetrics(match_field_terms(pred_list, order, ita_vocab),
                                        predicted_text, order))

\* C6: one more gold term that matches an already matched predicted term
\* never lowers fn and never lowers tp
C6_Monotonicity ==
    pc = "done" =>
        \A g \in Terms \ gold_terms :
            (\E i \in Matched(term_matches) :
                 PairTier(term_matches[i].predicted, g) # "no_match")
            => \A order \in Perms(gold_terms \cup {g}) :
                   LET more == match_field_terms(pred_list, order, ita_vocab)
                   IN  more.fn >= result.fn /\ more.tp >= result.tp

\* C7: predicted Jwara, Pandu Roga against gold {Jwara, Kasa} with a
\* vocabulary in which Jwara resolves to an id gives tp = 1 by ita_match,
\* fp = 1 for Pandu Roga, fn = 1 for Kasa
C7_Scenario ==
    (/\ pc = "done"
     /\ pred_list = <<Jwara, PanduRoga>>
     /\ gold_terms = {Jwara, Kasa}
     /\ ita_cache[Jwara] # None /\ ita_cache[Jwara] # <<>>)
    => /\ result.tp = 1 /\ result.fp = 1 /\ result.fn = 1
       /\ result.tier_breakdown = [l \in {"ita_match", "no_match"} |-> 1]
       /\ result.term_matches = <<TermMatch(Jwara, Jwara, TRUE, "ita_match"),
                                  TermMatch(PanduRoga, None, FALSE, "no_match")>>
       /\ result.unmatched_gold = <<Kasa>>

C7_Witness ==
    /\ pc = "done"
    /\ pred_list = <<Jwara, PanduRoga>>
    /\ gold_terms = {Jwara, Kasa}
    /\ ita_cache[Jwara] # None /\ ita_cache[Jwara] # <<>>
    /\ result.tp = 1

(***************************************************************************)
(* Properties of the evaluation driver and of the text metrics.            *)
(***************************************************************************)
\* the results _evaluate_config has to score: those not excluded
ToScore == {k \in 1..Len(eval_results) :
               ~(eval_exclude # {} /\ eval_results[k].vignette_index \in eval_exclude)}

\* C8: _evaluate_config completes for every threshold, with or without an
\* override, and scores every case with the threshold asked for (0.80 when
\* none is given)
C8_ThresholdConfigurable ==
    /\ eval_status # "TypeError"
    /\ eval_status = "returned" =>
          /\ Len(eval_matches) = Cardinality(ToScore)
          /\ \A i \in 1..Len(eval_matches) :
                eval_matches[i].threshold
                   = (IF eval_threshold = None THEN <<80, 100>> ELSE eval_threshold)

AllScores(sc, v) ==
    /\ FracEQ(sc.precision, v) /\ FracEQ(sc.recall, v) /\ FracEQ(sc.f1, v)

\* C9: rouge_l and token_f1 are all 1.0 when both texts are empty and all
\* 0.0 when exactly one text is empty, as in rouge_l("x", "")
C9_EmptyConventions ==
    tpc \in {"scored", "both"} =>
        /\ (text_a = <<>> /\ text_b = <<>>) =>
              /\ AllScores(scores_ab.rouge_l, One)
              /\ AllScores(scores_ab.token_f1, One)
        /\ ((text_a = <<>>) # (text_b = <<>>)) =>
              /\ AllScores(scores_ab.rouge_l, Zero)
              /\ AllScores(scores_ab.token_f1, Zero)

\* C10: token_f1(a, b) and token_f1(b, a) have the same f1, with precision
\* and recall exchanged
C10_TokenF1Symmetric ==
    tpc = "both" =>
        /\ FracEQ(scores_ab.token_f1.f1, scores_ba.token_f1.f1)
        /\ FracEQ(scores_ab.token_f1.precision, scores_ba.token_f1.recall)
        /\ FracEQ(scores_ab.token_f1.recall, scores_ba.token_f1.precision)

\* two texts whose token sets overlap and differ in size
C10_Witness ==
    /\ tpc = "both"
    /\ FracGT(scores_ab.token_f1.f1, Zero)
    /\ ~FracEQ(scores_ab.token_f1.precision, scores_ab.token_f1.recall)

(***************************************************************************)
(* Properties of the LCS table.                                            *)
(***************************************************************************)
\* the subsequence of s at the positions in idx, in order
RECURSIVE PickPositions(_, _, _)
PickPositions(s, idx, i) ==
    IF i > Len(s) THEN <<>>
    ELSE IF i \in idx THEN <<s[i]>> \o PickPositions(s, idx, i + 1)
    ELSE PickPositions(s, idx, i + 1)

Subsequences(s) == {PickPositions(s, idx, 1) : idx \in SUBSET (1..Len(s))}

\* the length of a longest common subsequence, by enumeration
LongestCommon(x, y) ==
    LET common == Subsequences(x) \cap Subsequences(y)
    IN  CHOOSE n \in 0..Len(x) :
           /\ \E c \in common : Len(c) = n
           /\ \A c \in common : Len(c) <= n

\* C11: rouge_l reports precision = lcs / |predicted tokens| and
\* recall = lcs / |gold tokens|, where lcs is the length of a longest
\* common subsequence of the two token sequences; both lie in [0, 1]
C11_TrueLcs ==
    tpc \in {"scored", "both"} =>
        LET x == tokenize(text_a)
            y == tokenize(text_b)
            lcs == LongestCommon(x, y)
        IN  /\ lcs_length(x, y) = lcs
            /\ lcs <= Min2(Len(x), Len(y))
            /\ (x # <<>> /\ y # <<>>) =>
                  /\ scores_ab.rouge_l.precision = <<lcs, Len(x)>>
                  /\ scores_ab.rouge_l.recall = <<lcs, Len(y)>>
                  /\ FracGE(scores_ab.rouge_l.precision, Zero)
                  /\ FracGE(One, scores_ab.rouge_l.precision)
                  /\ FracGE(scores_ab.rouge_l.recall, Zero)
                  /\ FracGE(One, scores_ab.rouge_l.recall)

\* two token sequences with the same tokens in a different order, whose
\* longest common subsequence is shorter than their common token set
C11_Witness ==
    /\ tpc = "scored"
    /\ Len(tokenize(text_a)) = 3
    /\ Len(tokenize(text_b)) = 3
    /\ LongestCommon(tokenize(text_a), tokenize(text_b)) = 2
    /\ scores_ab.rouge_l.precision = <<2, 3>>

(***************************************************************************)
(* Properties of compute_metrics.                                          *)
(***************************************************************************)
HasTerms(r) == r.predicted_terms # <<>> \/ r.gold_terms # <<>>
ScoredCases == {i \in 1..Len(vignette_results) : HasTerms(vignette_results[i])}
CorrectCases == {i \in ScoredCases : vignette_results[i].tp > 0}

RECURSIVE SumOver(_, _)
SumOver(rs, key) ==
    IF rs = <<>> THEN 0 ELSE Head(rs)[key] + SumOver(Tail(rs), key)

\* C12: n_scored counts exactly the cases with a predicted or a gold term,
\* n_correct exactly the scored cases with tp > 0, accuracy is
\* n_correct / n_scored, 0.0 when n_scored = 0, and 0 <= n_correct <= n_scored
C12_Accuracy ==
    /\ metrics_acc # NoResult =>
          /\ 0 <= metrics_acc.n_correct
          /\ metrics_acc.n_correct <= metrics_acc.n_scored
    /\ metrics # NoResult =>
          /\ metrics.n_scored = Cardinality(ScoredCases)
          /\ metrics.n_correct = Cardinality(CorrectCases)
          /\ 0 <= metrics.n_correct
          /\ metrics.n_correct <= metrics.n_scored
          /\ metrics.accuracy = (IF Cardinality(ScoredCases) = 0 THEN Zero
                                 ELSE <<Cardinality(CorrectCases), Cardinality(ScoredCases)>>)

\* an evaluation with a case without terms, a scored case that is wrong and
\* a scored case that is right
C12_Witness ==
    /\ metrics # NoResult
    /\ metrics.n_scored < Len(vignette_results)
    /\ 0 < metrics.n_correct
    /\ metrics.n_correct < metrics.n_scored

\* the mean of the per-case precisions, for comparison
CasePrecisions ==
    [i \in 1..Len(vignette_results) |->
        IF vignette_results[i].tp + vignette_results[i].fp > 0
        THEN <<vignette_results[i].tp, vignette_results[i].tp + vignette_results[i].fp>>
        ELSE Zero]

\* C13: precision = TP/(TP+FP) and recall = TP/(TP+FN) are computed from
\* the sums of tp, fp and fn over all cases; each is 0.0 when its
\* denominator is 0, and F1 is 0.0 when precision + recall is 0
C13_MicroAverage ==
    metrics # NoResult =>
        LET TP == SumOver(vignette_results, "tp")
            FP == SumOver(vignette_results, "fp")
            FN == SumOver(vignette_results, "fn")
            t == metrics.term_level
        IN  /\ t.tp = TP /\ t.fp = FP /\ t.fn = FN
            /\ t.precision = (IF TP + FP = 0 THEN Zero ELSE <<TP, TP + FP>>)
            /\ t.recall = (IF TP + FN = 0 THEN Zero ELSE <<TP, TP + FN>>)
            /\ (TP = 0) => FracEQ(t.f1, Zero)
            /\ (TP > 0) => FracEQ(FracMul(t.f1, FracAdd(t.precision, t.recall)),
                                  FracMul(<<2, 1>>, FracMul(t.precision, t.recall)))

\* an evaluation whose micro precision differs from the mean of the
\* per-case precisions, and differs from its recall
C13_Witness ==
    /\ metrics # NoResult
    /\ Len(vignette_results) >= 2
    /\ metrics.term_level.tp > 0
    /\ ~FracEQ(metrics.term_level.precision, Average(CasePrecisions))
    /\ ~FracEQ(metrics.term_level.precision, metrics.term_level.recall)

(***************************************************************************)
(* Properties of the paired significance test.                             *)
(***************************************************************************)
CorrectIn(rs, i) == rs[i].tp > 0
OnlyA == {i \in 1..Len(results_a) : i <= Len(results_b)
                                     /\ CorrectIn(results_a, i) /\ ~CorrectIn(results_b, i)}
OnlyB == {i \in 1..Len(results_a) : i <= Len(results_b)
                                     /\ ~CorrectIn(results_a, i) /\ CorrectIn(results_b, i)}

\* C14: on equal-length sequences mcnemar_test returns b = the number of
\* cases where only A is correct and c = the number where only B is
\* correct; whenever b = c it returns chi2 = 0.0 and p_value = 1.0, as for
\* [1,1,0,0] against [1,0,0,1] where b = c = 1
C14_DiscordantCounts ==
    (stats_pc = "done" /\ Len(results_a) = Len(results_b)) =>
        /\ stats.status = "returned"
        /\ stats.value.b = Cardinality(OnlyA)
        /\ stats.value.c = Cardinality(OnlyB)
        /\ (stats.value.b = stats.value.c) =>
              /\ FracEQ(stats.value.chi2, Zero)
              /\ FracEQ(stats.value.p_value, One)
        /\ (/\ results_a = <<RightCase, RightCase, WrongCase, WrongCase>>
            /\ results_b = <<RightCase, WrongCase, WrongCase, RightCase>>) =>
              /\ stats.value.b = 1
              /\ stats.value.c = 1
              /\ FracEQ(stats.value.chi2, Zero)
              /\ FracEQ(stats.value.p_value, One)

\* the scenario [1,1,0,0] against [1,0,0,1], tested
C14_Witness ==
    /\ stats_pc = "done"
    /\ results_a = <<RightCase, RightCase, WrongCase, WrongCase>>
    /\ results_b = <<RightCase, WrongCase, WrongCase, RightCase>>
    /\ stats.status = "returned"
    /\ stats.value.b = 1
    /\ stats.value.c = 1

\* the failure the code can signal a length mismatch with: its assertion
\* stands for the ShapeError of the design
IsShapeError(status) == status \in {"ShapeError", "AssertionError"}

\* C15: whenever the two sequences differ in length the paired test fails
\* with a ShapeError, and no result comes from a truncated or a skipped
\* comparison
C15_ShapeError ==
    (stats_pc = "done" /\ Len(results_a) # Len(results_b)) =>
        /\ IsShapeError(stats.status)
        /\ stats.value = NoResult

(***************************************************************************)
(* Properties of the bootstrap.                                            *)
(***************************************************************************)
\* C16: bootstrap_ci on an empty list of case results fails with
\* InsufficientDataError and returns no interval
C16_EmptyIsError ==
    (boot_pc \in {"first", "second"} /\ boot_results = <<>>) =>
        boot_first.status = "InsufficientDataError"

AtMost(values, x) == Cardinality({i \in 1..Len(values) : ~FracLess(x, values[i])})
AtLeast(values, x) == Cardinality({i \in 1..Len(values) : ~FracLess(values[i], x)})

Malformed ==
    \/ load_rows = <<>>
    \/ \E k \in 1..Len(load_rows) : Len(load_rows[k]) < 3

\* C19: building the index from an empty source or from a source with a
\* row of fewer than 3 fields fails with ConfigError and gives no index,
\* not even a partial one
C19_ConfigError ==
    (Malformed /\ load_status # "loading") =>
        /\ load_status = "ConfigError"
        /\ ita_vocab = EmptyVocab

DictKeys(d) == {d[i][1] : i \in 1..Len(d)}
DictValues(d) == {d[i][2] : i \in 1..Len(d)}

\* C20: whatever rows have been loaded, every id stored in sanskrit_index or
\* in english_index is a key of terms
C20_IndexInvariant ==
    /\ DictValues(ita_vocab.sanskrit_index) \subseteq DictKeys(ita_vocab.terms)
    /\ DictValues(ita_vocab.english_index) \subseteq DictKeys(ita_vocab.terms)
    /\ load_status = "loaded" => ita_vocab = Load(load_rows)

\* a loaded vocabulary in which a row repeated an id, an English term and a
\* Sanskrit alias of earlier rows: the entry of the id lost an alias that
\* sanskrit_index still maps to it
C20_Witness ==
    /\ load_status = "loaded"
    /\ \E i, j, k \in 2..Len(load_rows) :
          /\ i < j /\ k < j
          /\ load_rows[i][1] = load_rows[j][1]
          /\ load_rows[k] = RowKasa /\ load_rows[j] = RowRepeat
    /\ \E e \in 1..Len(ita_vocab.sanskrit_index) :
          LET key == ita_vocab.sanskrit_index[e][1]
              entry == DictGet(ita_vocab.terms, ita_vocab.sanskrit_index[e][2])
          IN  \A a \in 1..Len(entry[2]) : CollapsedKey(entry[2][a]) # key

(***************************************************************************)
(* Properties of the fuzzy lookups.                                        *)
(***************************************************************************)
\* the id of a lookup result, None when nothing was found
FoundId(found) == IF found = None THEN None ELSE found[1]

\* C21: the pruned Sanskrit lookup of terminology_bridge returns the id
\* that the unpruned lookup of irr_ayurveda returns for the same term,
\* vocabulary and threshold
C21_PruningEquivalence ==
    {"bridge", "irr"} \subseteq lookup_done =>
        FoundId(found_bridge) = FoundId(found_irr)

\* the best-scoring key of a scan of english_index without the length
\* test: <<best_id, best_sim>>
RECURSIVE UnprunedEnglish(_, _, _, _)
UnprunedEnglish(index, term_lower, best_id, best_sim) ==
    IF index = <<>> THEN <<best_id, best_sim>>
    ELSE LET sim == SequenceRatio(term_lower, Head(index)[1])
         IN  IF FracGT(sim, best_sim)
             THEN UnprunedEnglish(Tail(index), term_lower, Head(index)[2], sim)
             ELSE UnprunedEnglish(Tail(index), term_lower, best_id, best_sim)

\* C22: every key of english_index whose ratio to the query is at or above
\* the threshold passes the length test, and the match returned is the
\* best-scoring key of the scan without the length test
C22_EnglishPruningSafe ==
    "english" \in lookup_done =>
        LET term_lower == Strip(Lower(lookup_term))
            index == ita_vocab.english_index
            best == UnprunedEnglish(index, term_lower, None, <<0, 1>>)
        IN  /\ \A e \in 1..Len(index) :
                  FracGE(SequenceRatio(term_lower, index[e][1]), lookup_thr)
                     => ~LengthPruned(Len(term_lower), Len(index[e][1]), lookup_thr)
            /\ ~DictHas(index, term_lower) =>
                  IF best[1] # None /\ FracGE(best[2], lookup_thr)
                  THEN found_english # None /\ found_english[1] = best[1]
                                            /\ FracEQ(found_english[4], best[2])
                  ELSE found_english = None

(***************************************************************************)
(* Properties of the scoring functions on sparse data.                     *)
(***************************************************************************)
\* a ratio that is a number: a fraction with a positive denominator
Defined(f) == f[2] > 0 /\ f[1] >= 0
ScoresDefined(sc) == Defined(sc.precision) /\ Defined(sc.recall) /\ Defined(sc.f1)

\* C23: on empty predicted or gold terms, on cases whose terms are all
\* no_match, on zero discordant pairs and on an empty list of cases,
\* match_field_terms, rouge_l, token_f1, compute_metrics and mcnemar_test
\* return, and every ratio they return is a number
C23_SparseDefined ==
    /\ pc = "done" =>
          /\ result.tp + result.fp = Len(pred_list)
          /\ result.fn = Len(result.unmatched_gold)
          /\ ScoresDefined(result.text_metrics.rouge_l)
          /\ ScoresDefined(result.text_metrics.token_f1)
    /\ tpc \in {"scored", "both"} =>
          ScoresDefined(scores_ab.rouge_l) /\ ScoresDefined(scores_ab.token_f1)
    /\ tpc = "both" =>
          ScoresDefined(scores_ba.rouge_l) /\ ScoresDefined(scores_ba.token_f1)
    /\ metrics # NoResult =>
          /\ Defined(metrics.accuracy)
          /\ Defined(metrics.rouge_l)
          /\ Defined(metrics.token_f1)
          /\ ScoresDefined(metrics.term_level)
    /\ stats_pc = "done" =>
          /\ stats.status = "returned"
          /\ Defined(stats.value.chi2)
          /\ Defined(stats.value.p_value)

\* all four have returned on nothing at all: no predicted term, no gold
\* term, no case and no discordant pair
C23_Witness ==
    /\ pc = "done" /\ pred_list = <<>> /\ gold_list = <<>>
    /\ tpc = "both" /\ text_a = <<>> /\ text_b = <<>>
    /\ metrics # NoResult /\ vignette_results = <<>>
    /\ stats_pc = "done" /\ results_a = <<>> /\ stats.value.b + stats.value.c = 0

(***************************************************************************)
(* Properties of the splitter.                                             *)
(***************************************************************************)
\* the term begins with "?" or with likely, possible or probable and
\* whitespace, in any case
BeginsWithHedge(term) ==
    \/ term # <<>> /\ term[1] = "?"
    \/ \E word \in {LIKELY, PROBABLE, POSSIBLE} :
          StartsAtNoCase(term, 1, word) /\ SpacesFrom(term, Len(word) + 1) >= 1

\* C24: no term returned by split_terms begins with a preamble hedge,
\* wherever the hedge stood: at the start of the text or of a fragment,
\* after numbering, or after another hedge
C24_HedgeStripped ==
    split_pc = "done" =>
        \A i \in 1..Len(split_out) : ~BeginsWithHedge(split_out[i])

(***************************************************************************)
(* Properties of the pipeline run.                                         *)
(***************************************************************************)
\* the lines of the checkpoint that are records of a vignette index
RecordsOf(index) ==
    {k \in 1..Len(checkpoint) : checkpoint[k].vignette_index.value = index}
\* the calls of process_vignette for a vignette index
CallsFor(index) == {k \in 1..Len(invoked) : invoked[k].index = index}
Indices == {AllVignettes[i] : i \in 1..Len(AllVignettes)}

\* C25: process_vignette is never called for a vignette that has a record
\* in the checkpoint, whose cached result is returned instead; a newly
\* processed vignette is appended to the checkpoint once; so the checkpoint
\* never holds two records of an index, and run_all returns one result per
\* vignette of the subset, in subset order
C25_CheckpointResume ==
    /\ [](\A index \in Indices : Cardinality(RecordsOf(index)) <= 1)
    /\ [][ invoked' # invoked =>
             /\ RecordsOf(run_subset[run_i]) = {}
             /\ Len(checkpoint') = Len(checkpoint) + 1
             /\ SubSeq(checkpoint', 1, Len(checkpoint)) = checkpoint
             /\ checkpoint'[Len(checkpoint')].vignette_index.value = run_subset[run_i] ]_vars
    /\ [][ (run_pc = "running" /\ run_i <= Len(run_subset)
            /\ RecordsOf(run_subset[run_i]) # {}) =>
             /\ invoked' = invoked
             /\ checkpoint' = checkpoint
             /\ run_results' = Append(run_results,
                   ResultOfLine(checkpoint[CHOOSE k \in RecordsOf(run_subset[run_i]) : TRUE])) ]_vars
    /\ [][ runs' = runs + 1 =>
             /\ Len(run_returned') = Len(run_subset)
             /\ \A k \in 1..Len(run_subset) :
                   run_returned'[k].vignette_index = run_subset[k] ]_vars

\* a second call has returned cached results for the vignettes of the
\* first call and new results for the others
C25_Witness ==
    /\ runs = 2
    /\ run_pc = "ready"
    /\ Len(completed) >= 1
    /\ Len(completed) < Len(run_results)
    /\ Len(checkpoint) = Len(run_results)

\* C26: when process_vignette raises, run_all goes on: the result of the
\* vignette carries the error text and empty predictions, it is appended
\* to the checkpoint and the loop continues; the vignette then counts as
\* completed, so process_vignette is called at most once for it over all
\* later runs
C26_FailureIsolation ==
    /\ [][ (invoked' # invoked /\ invoked'[Len(invoked')].outcome.raised) =>
             LET call == invoked'[Len(invoked')]
                 res == run_results'[Len(run_results')]
             IN  /\ res = [vignette_index |-> call.index,
                           predicted_diagnosis |-> <<>>,
                           predicted_treatment |-> <<>>,
                           error |-> call.outcome.text]
                 /\ checkpoint' = Append(checkpoint, CheckpointLine(res))
                 /\ run_pc' = "running"
                 /\ run_i' = run_i + 1
                 /\ Len(run_results') = run_i ]_vars
    /\ [](\A index \in Indices : Cardinality(CallsFor(index)) <= 1)

\* a vignette failed in the first call, the call went on to the next
\* vignette, and the second call returned the record of the failure
\* without calling process_vignette again
C26_Witness ==
    /\ runs = 2
    /\ run_pc = "ready"
    /\ \E k \in 1..Len(invoked) :
          /\ invoked[k].outcome.raised
          /\ k < Len(invoked)
          /\ DictHas(completed, invoked[k].index)
          /\ \E j \in 1..Len(run_results) :
                /\ run_results[j].vignette_index = invoked[k].index
                /\ run_results[j].error = invoked[k].outcome.text

(***************************************************************************)
(* run_ablation --reeval (run_ablation.py 56-75, 165-186, 79-110) followed *)
(* by the McNemar section of compute_all_stats (stats.py 112-136).         *)
(***************************************************************************)
\* the two configurations compute_all_stats compares, in the order of the run
ConfigNames == <<"full_pipeline", "direct_llm">>

\* a line of a checkpoint file that json.loads rejects (a write cut short)
MalformedLine == [json |-> "malformed", vignette_index |-> -1, right |-> FALSE]
\* the line of one result: its vignette and whether its diagnosis is right
RecordLine(index, right) == [json |-> "object", vignette_index |-> index, right |-> right]

\* the checkpoint files run_all leaves behind over the first k vignettes, a
\* line of which may have been cut short
CheckpointFiles ==
    UNION { { f \in [1..k -> {MalformedLine} \cup {RecordLine(i, r) : i \in 0..(k - 1),
                                                                r \in BOOLEAN}] :
                \A i \in 1..k : f[i] = MalformedLine \/ f[i].vignette_index = i - 1 }
            : k \in 0..MaxVignettes }

\* _load_checkpoint, lines 60-75: the lines that parse, in file order
LoadCheckpoint(lines) == SelectSeq(lines, LAMBDA l : l.json = "object")

\* _evaluate_config, lines 91-107, without exclude_indices: one tuple
\* (vignette_index, match_result) per result; the third component of the
\* tuple is not read by compute_all_stats
EvaluateConfig(pipeline_results) ==
    [i \in 1..Len(pipeline_results) |->
        <<pipeline_results[i].vignette_index,
          IF pipeline_results[i].right THEN RightCase ELSE WrongCase>>]

\* sorted(tuples, key=lambda t: t[0]), line 126: a stable sort
RECURSIVE SortedTuples(_)
SortedTuples(tuples) ==
    IF tuples = <<>> THEN <<>>
    ELSE LET h == Head(tuples)
             rest == SortedTuples(Tail(tuples))
             n == Cardinality({i \in 1..Len(rest) : rest[i][1] < h[1]})
         IN  SubSeq(rest, 1, n) \o <<h>> \o SubSeq(rest, n + 1, Len(rest))

\* line 127
MatchResultsOf(tuples) == [i \in 1..Len(tuples) |-> SortedTuples(tuples)[i][2]]

\* lines 165-186 for the configurations in order: a configuration without
\* results is skipped, the others are cut to args.limit and evaluated
RECURSIVE ReevalConfigs(_, _, _, _)
ReevalConfigs(files, limit, k, acc) ==
    IF k > Len(ConfigNames) THEN acc
    ELSE LET pipeline_results == LoadCheckpoint(DictGet(files, ConfigNames[k]))
         IN  IF pipeline_results = <<>>
             THEN ReevalConfigs(files, limit, k + 1, acc)
             ELSE ReevalConfigs(files, limit, k + 1,
                      DictSet(acc, ConfigNames[k],
                              EvaluateConfig(Subset(pipeline_results, limit))))

AlignInit ==
    /\ MatchIdle
    /\ TextIdle
    /\ EvalIdle
    /\ StatsIdleButAlign
    /\ ServeIdle
    /\ ita_vocab = FullVocab
    /\ \E full \in CheckpointFiles, direct \in CheckpointFiles :
          raw_files = << <<"full_pipeline", full>>, <<"direct_llm", direct>> >>
    /\ reeval_pc = "start"
    /\ all_config_results = <<>>
    /\ mcnemar_out = <<>>

Reeval ==
    /\ reeval_pc = "start"
    /\ \E limit \in Limits :
          all_config_results' = ReevalConfigs(raw_files, limit, 1, <<>>)
    /\ reeval_pc' = "evaluated"
    /\ UNCHANGED <<ita_vocab, mvars, tvars, evars, cvars, pvars, bvars, dvars,
                   lvars, gvars, kvars, fvars, raw_files, mcnemar_out>>

\* compute_all_stats, lines 123-136: the section that runs the McNemar test;
\* pairs lists the vignette indices of the results zip puts together
ComputeAllStats ==
    /\ reeval_pc = "evaluated"
    /\ mcnemar_out' =
          IF DictHas(all_config_results, "full_pipeline")
             /\ DictHas(all_config_results, "direct_llm")
          THEN LET full_t == SortedTuples(DictGet(all_config_results, "full_pipeline"))
                   direct_t == SortedTuples(DictGet(all_config_results, "direct_llm"))
                   full == MatchResultsOf(DictGet(all_config_results, "full_pipeline"))
                   direct == MatchResultsOf(DictGet(all_config_results, "direct_llm"))
               IN  IF Len(full) = Len(direct)
                   THEN [status |-> "returned",
                         pairs |-> [i \in 1..Len(full) |-> <<full_t[i][1], direct_t[i][1]>>],
                         value |-> mcnemar_test(full, direct)]
                   ELSE [status |-> "skipped", pairs |-> <<>>, value |-> NoResult]
          ELSE [status |-> "skipped", pairs |-> <<>>, value |-> NoResult]
    /\ reeval_pc' = "done"
    /\ UNCHANGED <<ita_vocab, mvars, tvars, evars, cvars, pvars, bvars, dvars,
                   lvars, gvars, kvars, fvars, raw_files, all_config_results>>

AlignNext == Reeval \/ ComputeAllStats

SpecAlign == AlignInit /\ [][AlignNext]_vars

\* C27: whenever compute_all_stats runs the McNemar test for full_pipeline
\* against direct_llm, every pair of results it compares belongs to the same
\* vignette index in both configurations
C27_PairedAlignment ==
    (reeval_pc = "done" /\ mcnemar_out.status = "returned") =>
        \A i \in 1..Len(mcnemar_out.pairs) :
            mcnemar_out.pairs[i][1] = mcnemar_out.pairs[i][2]

(***************************************************************************)
(* Properties of the matcher on identical terms.                           *)
(***************************************************************************)
\* C28: a predicted term that is string-identical to a gold term still
\* unconsumed when it is processed is matched by match_field_terms, never
\* counted as a false positive, whatever term split_terms produced
C28_IdentityMatches ==
    [][ (/\ pc = "loop"
         /\ pi <= Len(pred_list)
         /\ pi' = pi + 1
         /\ \E k \in 1..Len(remaining_gold) : remaining_gold[k] = pred_list[pi])
        => term_matches'[pi].matched ]_vars

(***************************************************************************)
(* Properties of the finished assignment.                                  *)
(***************************************************************************)
UnmatchedPredicted == {term_matches[i].predicted :
                          i \in {j \in 1..Len(term_matches) : ~term_matches[j].matched}}

\* C29: when match_field_terms finishes, no unmatched predicted term and
\* unmatched gold term are left that match_term_to_term classifies as a
\* match at any tier
C29_Maximal ==
    pc = "done" =>
        \A p \in UnmatchedPredicted : \A g \in SetOf(result.unmatched_gold) :
            PairTier(p, g) = "no_match"

\* a finished case that leaves an unmatched predicted term and an unmatched
\* gold term next to a matched pair, the unmatched predicted term having
\* been compared with a gold term that matches another prediction
C29_Witness ==
    /\ pc = "done"
    /\ result.tp >= 1
    /\ UnmatchedPredicted # {}
    /\ result.unmatched_gold # <<>>
    /\ \E p \in UnmatchedPredicted : \E i \in Matched(term_matches) :
          PairTier(p, term_matches[i].gold) # "no_match"

(***************************************************************************)
(* The detail questions of one request of analyze (main.py 679-706): the   *)
(* 13 prompts of _build_questions are answered by _call_with_limit tasks   *)
(* under asyncio.Semaphore(5) and gathered in order.                       *)
(***************************************************************************)
\* _build_questions, lines 420-461: the prompts in list order, each written
\* as the subject it asks about
Questions ==
    << "Nidana/Pathogenesis", "symptoms (Rupa)", "single-herb remedies",
       "classical Ayurvedic formulations (Yogas)", "Panchakarma therapies",
       "dietary advice (Pathya/Apathya)", "Yoga Asanas or Pranayama",
       "prognosis (Sadhya/Asadhya)", "modern medical correlation",
       "Differential Diagnosis (Vyavachedaka Nidana)", "modern lab investigations",
       "Rasayana (Rejuvenation) therapy", "psychosomatic component (Manasika Dosha)" >>

\* lines 464-478
RESPONSE_KEYS ==
    << "overview_dosha_causes", "symptoms", "single_drug_remedies",
       "classical_formulations", "panchakarma", "diet_lifestyle", "yoga",
       "prognosis", "modern_correlation_warnings", "differential_diagnosis",
       "investigations_labs", "prevention_recurrence", "psychotherapy_satvavajaya" >>

\* line 686: asyncio.Semaphore(5)
SEMAPHORE_SLOTS == 5

\* the calls of one request that raise: none, the first, one that had to
\* wait, two that overlap, all
FailureScenarios == {{}, {1}, {6}, {5, 6}, 1..13}

\* what the language model answers to a prompt
Answer(prompt) == "answer on " \o prompt
\* a response that _call_with_limit has not returned yet
NoResponse == "<pending>"

Tasks == 1..Len(Questions)
InFlight == {i \in DOMAIN task_pc : task_pc[i] = "calling"}

\* Semaphore.acquire that never waits
CanAcquire_Always(value, queue) == TRUE

\* Semaphore.acquire at line 688 goes through at once when the counter is
\* positive and nobody waits
CanAcquire(value, queue) == value > 0 /\ queue = <<>>

\* _call_with_limit that passes a failure on as its result
CallWithLimit_Raises(prompt, raises) ==
    IF raises THEN "Exception" ELSE Answer(prompt)

\* lines 689-697: the result of the call, or "" when it raised
CallWithLimit(prompt, raises) ==
    IF raises THEN "" ELSE Answer(prompt)

\* zip that pairs the keys with the responses in reverse order
ZipResponses_Reversed(keys, resps) ==
    [i \in 1..Min2(Len(keys), Len(resps)) |-> <<keys[i], resps[Len(resps) + 1 - i]>>]

\* lines 704-706: ayurparam_responses[key] = resp over zip(RESPONSE_KEYS, responses)
\* a key stands where it was first assigned and holds what it was last
\* assigned
ZipResponses(keys, resps) ==
    LET n == Min2(Len(keys), Len(resps))
        firsts == {i \in 1..n : \A j \in 1..(i - 1) : keys[j] # keys[i]}
        Last(i) == CHOOSE j \in i..n :
                      keys[j] = keys[i] /\ \A m \in (j + 1)..n : keys[m] # keys[i]
        Pos(k) == CHOOSE i \in firsts : Cardinality({j \in firsts : j < i}) = k - 1
    IN  [k \in 1..Cardinality(firsts) |-> <<keys[Pos(k)], resps[Last(Pos(k))]>>]

ServeInit ==
    /\ MatchIdle
    /\ TextIdle
    /\ EvalIdle
    /\ StatsIdleButAlign
    /\ AlignIdle
    /\ ita_vocab = FullVocab
    /\ serve_pc = "start"
    /\ task_pc = <<>>
    /\ sem_value = 0
    /\ waiters = <<>>
    /\ responses = <<>>
    /\ raising \in FailureScenarios
    /\ ayurparam_responses = <<>>

\* lines 680-700: the questions are built, the semaphore is created and
\* gather makes one task per question
Gather ==
    /\ serve_pc = "start"
    /\ serve_pc' = "gather"
    /\ task_pc' = [i \in Tasks |-> "created"]
    /\ sem_value' = SEMAPHORE_SLOTS
    /\ waiters' = <<>>
    /\ responses' = [i \in Tasks |-> NoResponse]
    /\ UNCHANGED <<ita_vocab, mvars, tvars, evars, cvars, pvars, bvars, dvars,
                   lvars, gvars, kvars, avars, raising, ayurparam_responses>>

\* the first step of a task, taken in the order gather created the tasks
\* in: async with sem (line 688) either takes a slot and hands the call to
\* a thread (line 690) or queues the task behind the earlier waiters
StartTask(i) ==
    /\ serve_pc = "gather"
    /\ task_pc[i] = "created"
    /\ \A j \in 1..(i - 1) : task_pc[j] # "created"
    /\ IF CanAcquire(sem_value, waiters)
       THEN /\ sem_value' = sem_value - 1
            /\ task_pc' = [task_pc EXCEPT ![i] = "calling"]
            /\ UNCHANGED waiters
       ELSE /\ waiters' = Append(waiters, i)
            /\ task_pc' = [task_pc EXCEPT ![i] = "waiting"]
            /\ UNCHANGED sem_value
    /\ UNCHANGED <<ita_vocab, mvars, tvars, evars, cvars, pvars, bvars, dvars,
                   lvars, gvars, kvars, avars, serve_pc, responses, raising,
                   ayurparam_responses>>

\* the event loop runs the first step of every task of gather before it
\* runs the callback of a call that a thread has finished
AllStarted == \A j \in DOMAIN task_pc : task_pc[j] # "created"

\* lines 689-697 and the end of the async with block: the call of task i
\* returns or raises, the task returns its result and releases its slot,
\* which release hands to the first waiter when there is one
FinishCall(i) ==
    /\ serve_pc = "gather"
    /\ AllStarted
    /\ task_pc[i] = "calling"
    /\ responses' = [responses EXCEPT ![i] = CallWithLimit(Questions[i], i \in raising)]
    /\ IF waiters # <<>>
       THEN /\ task_pc' = [task_pc EXCEPT ![i] = "done", ![Head(waiters)] = "woken"]
            /\ waiters' = Tail(waiters)
            /\ UNCHANGED sem_value
       ELSE /\ task_pc' = [task_pc EXCEPT ![i] = "done"]
            /\ sem_value' = sem_value + 1
            /\ UNCHANGED waiters
    /\ UNCHANGED <<ita_vocab, mvars, tvars, evars, cvars, pvars, bvars, dvars,
                   lvars, gvars, kvars, avars, serve_pc, raising,
                   ayurparam_responses>>

\* a task that was handed a slot resumes inside the async with block and
\* hands its call to a thread (line 690)
ResumeTask(i) ==
    /\ serve_pc = "gather"
    /\ task_pc[i] = "woken"
    /\ task_pc' = [task_pc EXCEPT ![i] = "calling"]
    /\ UNCHANGED <<ita_vocab, mvars, tvars, evars, cvars, pvars, bvars, dvars,
                   lvars, gvars, kvars, avars, serve_pc, sem_value, waiters,
                   responses, raising, ayurparam_responses>>

\* gather returns once every task has, with the results in the order of
\* the tasks; lines 703-706 assemble the dict
Assemble ==
    /\ serve_pc = "gather"
    /\ \A i \in Tasks : task_pc[i] = "done"
    /\ ayurparam_responses' = ZipResponses(RESPONSE_KEYS, responses)
    /\ serve_pc' = "assembled"
    /\ UNCHANGED <<ita_vocab, mvars, tvars, evars, cvars, pvars, bvars, dvars,
                   lvars, gvars, kvars, avars, task_pc, sem_value, waiters,
                   responses, raising>>

ServeNext ==
    \/ Gather
    \/ \E i \in Tasks : StartTask(i)
    \/ \E i \in Tasks : FinishCall(i)
    \/ \E i \in Tasks : ResumeTask(i)
    \/ Assemble

\* a call handed to a thread returns or raises, and the event loop runs
\* every task that is ready
SpecServeFair == ServeInit /\ [][ServeNext]_vars /\ WF_vars(ServeNext)

AllCallsFinished ==
    serve_pc \in {"gather", "assembled"} /\ \A i \in Tasks : task_pc[i] = "done"

\* C30: while one request answers its 13 detail questions at most 5
\* language-model calls are in flight at any moment, every question's call
\* eventually finishes, a failed call yielding an empty string instead of
\* failing the request, and each response is stored under the
\* RESPONSE_KEYS entry at the same position as its question
C30_BoundedFanOut ==
    /\ [](Cardinality(InFlight) <= 5)
    /\ [](\A i \in DOMAIN task_pc :
             task_pc[i] = "done" =>
                responses[i] = IF i \in raising THEN "" ELSE Answer(Questions[i]))
    /\ (serve_pc = "start") ~> AllCallsFinished
    /\ AllCallsFinished ~> (serve_pc = "assembled")
    /\ [](serve_pc = "assembled" =>
             /\ Len(ayurparam_responses) = 13
             /\ \A i \in 1..13 :
                   /\ ayurparam_responses[i][1] = RESPONSE_KEYS[i]
                   /\ DictGet(ayurparam_responses, RESPONSE_KEYS[i]) = responses[i])

\* the request is assembled after the call of a task that had to wait for
\* a slot raised, the last question being answered
C30_Witness ==
    /\ serve_pc = "assembled"
    /\ raising = {6}
    /\ DictGet(ayurparam_responses, RESPONSE_KEYS[6]) = ""
    /\ DictGet(ayurparam_responses, RESPONSE_KEYS[13]) = Answer(Questions[13])

====
